---- MODULE Spec2Model ----
(***************************************************************************)
(* Verification model of the Mangatan servers.                             *)
(*                                                                         *)
(*   audio-server   crates/audio-server/src/handlers.rs                    *)
(*   yomitan-server crates/yomitan-server/src/{handlers,lookup,import,     *)
(*                  state,lib}.rs                                          *)
(*                                                                         *)
(* Each subsystem has its own group of variables and its own               *)
(* specification (ClipSpec, SelectSpec, ...).  A specification lets the    *)
(* variables of the other subsystems rest at their idle value.             *)
(*                                                                         *)
(* f64 times are modelled as records [kind, v]: kind "fin" carries an      *)
(* integer number of time units, the other kinds are NaN and the two       *)
(* infinities.  Rounding of f64 arithmetic is not modelled.                *)
(***************************************************************************)
EXTENDS Integers, Sequences, FiniteSets, TLC

VARIABLES
    \* ---- audio-server: clip_handler / build_audio_clip
    query,            \* AudioClipQuery of the request being served
    clip_pc,          \* position of the request: idle, build, decode, responded
    response,         \* HTTP status answered (0: none yet)
    upstream,         \* number of upstream requests issued (playlist, segments)
    build_entered,    \* build_audio_clip has been called
    build_start,      \* argument start of build_audio_clip
    build_duration,   \* argument duration of build_audio_clip
    \* ---- yomitan-server: AppState and the tasks that use it
    dictionaries,     \* AppState.dictionaries: id -> Dictionary (NoDict: absent)
    next_dict_id,     \* AppState.next_dict_id
    loading,          \* AppState.loading
    terms,            \* committed rows of the terms table
    dict_lock,        \* writer of the RwLock of dictionaries (None: free)
    id_lock,          \* writer of the RwLock of next_dict_id (None: free)
    pc,               \* position of every task
    dict_id,          \* import_zip's local dict_id of every task
    import_result,    \* what import_zip returned to the task
    lookup_status,    \* HTTP status lookup_handler answered (0: none yet)
    lookup_importing, \* an import was running when lookup_handler read the flag
    restarts,         \* how often the process was started again
    \* ---- audio-server: build_audio_clip after the playlist arrived
    playlist,         \* the media playlist: the segments read so far, in order
    target_start,     \* window start handed to select_segments
    target_end,       \* window end handed to select_segments
    build_pc,         \* select (the loop of select_segments), fetch, done, failed
    time_cursor,      \* select_segments: time_cursor
    last_map,         \* select_segments: last_map
    last_byte_range_end, \* select_segments: last_byte_range_end
    previous_segment, \* select_segments: previous_segment
    selections,       \* select_segments: selections, then build_audio_clip's segments
    scan_stopped,     \* select_segments left its loop by a break
    fetch_index,      \* build_audio_clip: segments of the selection already fetched
    map_cache,        \* build_audio_clip: map_cache (key and the request that gave the bytes)
    requests,         \* the upstream byte requests sent, in order
    build_error,      \* the error build_audio_clip ended with (None: none)
    \* ---- audio-server: decode_samples_from_bytes on one selected segment
    segment_start,    \* segment.start_time, in ticks
    segment_duration, \* segment.duration, in ticks
    sample_rate,      \* frames per second of the decoded audio
    audio_frames,     \* frames the segment's data decodes to
    window_start,     \* argument target_start, in ticks
    window_end,       \* argument target_end, in ticks
    base_time,        \* argument base_time: the recovered first_pts, or Nothing
    cursor_frames,    \* frames decoded so far
    samples,          \* frames appended to samples so far
    decode_pc,        \* off, loop, done
    channels,         \* spec.channels.count() of the decoded buffers
    samples_len,      \* samples.len(): interleaved i16 values appended so far
    last_buffer,      \* what the last turn of the loop computed and copied, if any
    \* ---- yomitan-server: calculate_furigana
    headword,         \* argument headword, as its chars
    reading,          \* argument reading, as its chars
    h_start,          \* calculate_furigana: h_start
    h_end,            \* calculate_furigana: h_end
    r_start,          \* calculate_furigana: r_start
    r_end,            \* calculate_furigana: r_end
    parts,            \* the (base, ruby) pairs returned
    furigana_pc,      \* off, start, prefix, suffix, done
    \* ---- yomitan-server: LookupService::search
    search_text,      \* the chars of text from start_index on
    store,            \* the rows of the terms table, in row order
    len,              \* search: the loop variable len
    results,          \* search: results
    processed_candidates,\* search: processed_candidates
    queried,          \* every (substring, candidate) the statement was run for, in order
    collected,        \* results as they were before the sort
    search_pc,        \* off, start, scan, sort, done
    \* ---- audio-server: ts_packet_size
    ts_data,          \* argument data: its length and where its bytes are not 0x47
    packet_size,      \* what ts_packet_size returned
    ts_pc,            \* off, call, returned
    \* ---- audio-server: extract_adts_frames
    adts_data,        \* argument data, as its bytes
    scan_index,       \* extract_adts_frames: i
    frames,           \* extract_adts_frames: frames
    slices,           \* where in data every run of bytes appended to frames came from
    adts_pc,          \* off, scan, done
    \* ---- audio-server: parse_pes_header
    pes_payload,      \* argument payload, as its bytes
    pes_header,       \* what parse_pes_header returned: Nothing, or Some of pts and data_start
    pes_pc,           \* off, call, returned
    \* ---- audio-server: encode_wav_i16
    sample_count,     \* samples.len(), as a u64
    wav_rate,         \* argument sample_rate
    wav_channels,     \* argument channels
    wav_status,       \* off, call, ok, too_large, panic
    wav_header,       \* the first 44 bytes of the output
    wav_len,          \* the length of the output, as a u64
    \* ---- audio-server: select_master_variant
    master,           \* the master playlist: media and variant_streams
    variant_url,      \* what select_master_variant returned: Nothing yet, or Some uri
    master_error,     \* the error it ended with (None: none)
    master_pc,        \* off, call, returned
    \* ---- audio-server: extract_adts_from_ts, second pass, and prepare_segment_audio
    ts_packets,       \* the packets of the segment read so far, in order
    current_pes,      \* extract_adts_from_ts: current_pes
    pes_payloads,     \* extract_adts_from_ts: pes_payloads
    force_segment_start,\* extract_adts_from_ts: force_segment_start
    extraction,       \* the AdtsExtraction returned (Nothing: not yet)
    prepared,         \* the PreparedAudio and the base_time build_audio_clip derives from it
    demux_pc,         \* off, packets, extracted, prepared
    \* ---- yomitan-server: manage_dictionaries_handler and the store it writes
    admin_dicts,      \* app_state.dictionaries as the admin handlers see it
    next_id,          \* app_state.next_dict_id
    db,               \* the database: the rows of every table of the schema
    vacuumed,         \* a VACUUM has run
    admin_action,     \* the last DictionaryAction handled (Nothing: none yet)
    admin_status,     \* the status of its response: none, ok, error
    admin_before,     \* the map and the database as they were when it arrived
    \* ---- yomitan-server: lookup_handler, the aggregation of the ranked entries
    raw_results,      \* the ranked entries read so far, in order
    aggregators,      \* lookup_handler: map, the Vec of Aggregator
    final_results,    \* the groups of the response (Nothing: not yet)
    agg_pc,           \* off, entries, done
    \* ---- ocr-server: run_chapter_job
    android,          \* cfg!(target_os = android) of the build
    pages,            \* run_chapter_job: the number of pages handed over
    job_pc,           \* off, new, running, ended
    page_state,       \* each page: pending, fetching, cached, processed, failed
    completed_counter,\* run_chapter_job: completed_counter
    active_chapter_jobs,\* state.active_chapter_jobs at job_id (Nothing: no entry)
    active_jobs,      \* state.active_jobs
    jobs_before       \* state.active_jobs as it was when the job was called

clipVars == <<query, clip_pc, response, upstream, build_entered, build_start, build_duration>>

dictVars == <<dictionaries, next_dict_id, loading, terms, dict_lock, id_lock, pc, dict_id,
              import_result, lookup_status, lookup_importing, restarts>>

buildVars == <<playlist, target_start, target_end, build_pc, time_cursor, last_map,
               last_byte_range_end, previous_segment, selections, scan_stopped, fetch_index,
               map_cache, requests, build_error>>

windowVars == <<segment_start, segment_duration, sample_rate, audio_frames, window_start,
                window_end, base_time, cursor_frames, samples, decode_pc,
                channels, samples_len, last_buffer>>

furiganaVars == <<headword, reading, h_start, h_end, r_start, r_end, parts, furigana_pc>>

searchVars == <<search_text, store, len, results, processed_candidates, queried, collected, search_pc>>

tsVars == <<ts_data, packet_size, ts_pc>>

adtsVars == <<adts_data, scan_index, frames, slices, adts_pc>>

pesVars == <<pes_payload, pes_header, pes_pc>>

wavVars == <<sample_count, wav_rate, wav_channels, wav_status, wav_header, wav_len>>

masterVars == <<master, variant_url, master_error, master_pc>>

demuxVars == <<ts_packets, current_pes, pes_payloads, force_segment_start, extraction, prepared, demux_pc>>

adminVars == <<admin_dicts, next_id, db, vacuumed, admin_action, admin_status, admin_before>>

aggregateVars == <<raw_results, aggregators, final_results, agg_pc>>

jobVars == <<android, pages, job_pc, page_state, completed_counter, active_chapter_jobs, active_jobs, jobs_before>>

vars == <<clipVars, dictVars, buildVars, windowVars, furiganaVars, searchVars, tsVars, adtsVars, pesVars, wavVars, masterVars, demuxVars, adminVars, aggregateVars, jobVars>>

\* what the actions of one subsystem leave alone: the other subsystems
notClip == <<dictVars, buildVars, windowVars, furiganaVars, searchVars, tsVars, adtsVars, pesVars, wavVars, masterVars, demuxVars, adminVars, aggregateVars, jobVars>>
notDict == <<clipVars, buildVars, windowVars, furiganaVars, searchVars, tsVars, adtsVars, pesVars, wavVars, masterVars, demuxVars, adminVars, aggregateVars, jobVars>>
notBuild == <<clipVars, dictVars, windowVars, furiganaVars, searchVars, tsVars, adtsVars, pesVars, wavVars, masterVars, demuxVars, adminVars, aggregateVars, jobVars>>
notWindow == <<clipVars, dictVars, buildVars, furiganaVars, searchVars, tsVars, adtsVars, pesVars, wavVars, masterVars, demuxVars, adminVars, aggregateVars, jobVars>>
notFurigana == <<clipVars, dictVars, buildVars, windowVars, searchVars, tsVars, adtsVars, pesVars, wavVars, masterVars, demuxVars, adminVars, aggregateVars, jobVars>>
notSearch == <<clipVars, dictVars, buildVars, windowVars, furiganaVars, tsVars, adtsVars, pesVars, wavVars, masterVars, demuxVars, adminVars, aggregateVars, jobVars>>
notTs == <<clipVars, dictVars, buildVars, windowVars, furiganaVars, searchVars, adtsVars, pesVars, wavVars, masterVars, demuxVars, adminVars, aggregateVars, jobVars>>
notAdts == <<clipVars, dictVars, buildVars, windowVars, furiganaVars, searchVars, tsVars, pesVars, wavVars, masterVars, demuxVars, adminVars, aggregateVars, jobVars>>
notPes == <<clipVars, dictVars, buildVars, windowVars, furiganaVars, searchVars, tsVars, adtsVars, wavVars, masterVars, demuxVars, adminVars, aggregateVars, jobVars>>
notWav == <<clipVars, dictVars, buildVars, windowVars, furiganaVars, searchVars, tsVars, adtsVars, pesVars, masterVars, demuxVars, adminVars, aggregateVars, jobVars>>
notMaster == <<clipVars, dictVars, buildVars, windowVars, furiganaVars, searchVars, tsVars, adtsVars, pesVars, wavVars, demuxVars, adminVars, aggregateVars, jobVars>>
notDemux == <<clipVars, dictVars, buildVars, windowVars, furiganaVars, searchVars, tsVars, adtsVars, pesVars, wavVars, masterVars, adminVars, aggregateVars, jobVars>>
notAdmin == <<clipVars, dictVars, buildVars, windowVars, furiganaVars, searchVars, tsVars, adtsVars, pesVars, wavVars, masterVars, demuxVars, aggregateVars, jobVars>>
notAggregate == <<clipVars, dictVars, buildVars, windowVars, furiganaVars, searchVars, tsVars, adtsVars, pesVars, wavVars, masterVars, demuxVars, adminVars, jobVars>>
notJob == <<clipVars, dictVars, buildVars, windowVars, furiganaVars, searchVars, tsVars, adtsVars, pesVars, wavVars, masterVars, demuxVars, adminVars, aggregateVars>>

None == "None"

\* ------------------------------------------------------------------ f64
Fin(n) == [kind |-> "fin", v |-> n]
NaN == [kind |-> "nan", v |-> 0]
PosInf == [kind |-> "inf", v |-> 0]
NegInf == [kind |-> "-inf", v |-> 0]

is_finite(x) == x.kind = "fin"

\* f64::max: the other operand when one is NaN
f64_max(a, b) ==
    IF a.kind = "nan" THEN b
    ELSE IF b.kind = "nan" THEN a
    ELSE IF a.kind = "inf" \/ b.kind = "inf" THEN PosInf
    ELSE IF a.kind = "-inf" THEN b
    ELSE IF b.kind = "-inf" THEN a
    ELSE IF a.v >= b.v THEN a ELSE b

\* f64::min: the other operand when one is NaN
f64_min(a, b) ==
    IF a.kind = "nan" THEN b
    ELSE IF b.kind = "nan" THEN a
    ELSE IF a.kind = "-inf" \/ b.kind = "-inf" THEN NegInf
    ELSE IF a.kind = "inf" THEN b
    ELSE IF b.kind = "inf" THEN a
    ELSE IF a.v <= b.v THEN a ELSE b

\* a - b on f64
f64_sub(a, b) ==
    IF a.kind = "nan" \/ b.kind = "nan" THEN NaN
    ELSE IF a.kind = "fin" /\ b.kind = "fin" THEN Fin(a.v - b.v)
    ELSE IF a.kind = b.kind THEN NaN
    ELSE IF a.kind = "inf" \/ b.kind = "-inf" THEN PosInf
    ELSE NegInf

\* a <= b on f64 (false when either is NaN)
f64_le(a, b) ==
    /\ a.kind # "nan" /\ b.kind # "nan"
    /\ \/ a.kind = "-inf"
       \/ b.kind = "inf"
       \/ a.kind = "fin" /\ b.kind = "fin" /\ a.v <= b.v

\* a < b on f64 (false when either is NaN)
f64_lt(a, b) == f64_le(a, b) /\ a # b

\* a + b on f64
f64_add(a, b) ==
    IF a.kind = "nan" \/ b.kind = "nan" THEN NaN
    ELSE IF a.kind = "fin" /\ b.kind = "fin" THEN Fin(a.v + b.v)
    ELSE IF a.kind = "fin" THEN b
    ELSE IF b.kind = "fin" \/ a.kind = b.kind THEN a
    ELSE NaN

\* ------------------------------------------------------------ clip_handler
MAX_DURATION_SECONDS == 30

\* bounds of the requests tried
MaxId == 1
TimeStep == 10
MaxTimeSteps == 5

Ids == -1..MaxId
FiniteTimes == {Fin(k * TimeStep) : k \in -1..MaxTimeSteps}
Times == FiniteTimes \cup {NaN, PosInf, NegInf}

Queries == [animeId : Ids, episodeIndex : Ids, videoIndex : Ids, start : Times, end : Times]

NoQuery == [animeId |-> 0, episodeIndex |-> 0, videoIndex |-> 0, start |-> Fin(0), end |-> Fin(0)]

InvalidIds(q) == q.animeId < 0 \/ q.episodeIndex < 0 \/ q.videoIndex < 0

NonFiniteRange(q) == ~is_finite(q.start) \/ ~is_finite(q.end)

safe_start(q) == f64_max(q.start, Fin(0))
safe_end(q) == f64_max(q.end, Fin(0))
\* a variant without the clamp to MAX_DURATION_SECONDS
duration_unclamped(q) == f64_sub(safe_end(q), safe_start(q))
duration(q) == f64_min(f64_sub(safe_end(q), safe_start(q)), Fin(MAX_DURATION_SECONDS))

EmptyDurationStrict(d) == f64_lt(d, Fin(0))
EmptyDuration(d) == f64_le(d, Fin(0))

ClipIdle ==
    /\ query = NoQuery
    /\ clip_pc = "off"
    /\ response = 0
    /\ upstream = 0
    /\ build_entered = FALSE
    /\ build_start = Fin(0)
    /\ build_duration = Fin(0)

ClipInit ==
    /\ query \in Queries
    /\ clip_pc = "idle"
    /\ response = 0
    /\ upstream = 0
    /\ build_entered = FALSE
    /\ build_start = Fin(0)
    /\ build_duration = Fin(0)

\* clip_handler up to the call of build_audio_clip
ClipHandler ==
    /\ clip_pc = "idle"
    /\ IF InvalidIds(query) \/ NonFiniteRange(query) \/ EmptyDuration(duration(query))
       THEN /\ response' = 400
            /\ clip_pc' = "responded"
            /\ UNCHANGED <<build_entered, build_start, build_duration>>
       ELSE /\ build_entered' = TRUE
            /\ build_start' = safe_start(query)
            /\ build_duration' = duration(query)
            /\ clip_pc' = "build"
            /\ UNCHANGED response
    /\ UNCHANGED <<query, upstream, notClip>>

\* build_audio_clip: the playlist request; it may fail
FetchMediaPlaylist ==
    /\ clip_pc = "build"
    /\ upstream' = upstream + 1
    /\ \E ok \in BOOLEAN :
         IF ok THEN clip_pc' = "decode" /\ UNCHANGED response
         ELSE clip_pc' = "responded" /\ response' = 500
    /\ UNCHANGED <<query, build_entered, build_start, build_duration, notClip>>

\* build_audio_clip: the rest of the build and the answer of clip_handler
BuildFinish ==
    /\ clip_pc = "decode"
    /\ \E ok \in BOOLEAN : response' = IF ok THEN 200 ELSE 500
    /\ clip_pc' = "responded"
    /\ UNCHANGED <<query, upstream, build_entered, build_start, build_duration, notClip>>

ClipNext == ClipHandler \/ FetchMediaPlaylist \/ BuildFinish

\* C1: a request with end <= start, with a non-finite start or end, or with a
\* negative animeId/episodeIndex/videoIndex is answered 400, build_audio_clip
\* is never entered and no upstream request is issued.
C1_Rejected(q) ==
    \/ InvalidIds(q)
    \/ ~is_finite(q.start) \/ ~is_finite(q.end)
    \/ q.end.v <= q.start.v

C1_InvalidClipIs400 ==
    C1_Rejected(query) =>
        /\ ~build_entered
        /\ upstream = 0
        /\ clip_pc \in {"idle", "responded"}
        /\ clip_pc = "responded" => response = 400

C1_Witness ==
    /\ clip_pc = "responded" /\ response = 400
    /\ ~InvalidIds(query)
    /\ is_finite(query.start) /\ is_finite(query.end)
    /\ query.end.v = query.start.v /\ query.start.v > 0

\* build_audio_clip: target_end = start + duration
build_target_end == f64_add(build_start, build_duration)

\* C13: for an accepted request the build gets the window that starts at
\* max(start, 0) and lasts d = min(max(end, 0) - max(start, 0), 30), so the
\* window never starts before 0 and is never longer than 30 seconds.
C13_WindowClamped ==
    build_entered =>
        LET s == IF query.start.v > 0 THEN query.start.v ELSE 0
            e == IF query.end.v > 0 THEN query.end.v ELSE 0
            d == IF e - s < 30 THEN e - s ELSE 30
        IN  /\ build_start = Fin(s)
            /\ build_duration = Fin(d)
            /\ build_target_end = Fin(s + d)
            /\ s >= 0
            /\ d > 0
            /\ d <= 30

C13_Witness ==
    /\ build_entered
    /\ query.start.v < 0
    /\ query.end.v > 30
    /\ build_start = Fin(0)
    /\ build_duration = Fin(30)

\* ------------------------------------------------- yomitan-server: AppState
\* The tasks that run against one AppState.  Each runs once; TLC tries every
\* interleaving of their steps.
Importers == {"prebake", "install", "reset", "upload"}
Procs == Importers \cup {"lookup"}

\* bounds: the ids the counter is followed to, and the tasks that run in one
\* behaviour
MaxDictId == 5
MaxTasks == 3
MaxRestarts == 1

DictIds == 1..MaxDictId
NoDict == [name |-> None]
PREBAKED_DICT == "JMdict_english.zip"
UploadedZip == "upload.zip"

\* the archive a task hands to import_zip
ZipOf(p) == IF p = "upload" THEN UploadedZip ELSE PREBAKED_DICT

is_empty(dicts) == \A i \in DictIds : dicts[i] = NoDict

\* pc values inside import_zip
ImportPcs == {"imp_parse", "imp_lock_id", "imp_lock_dicts", "imp_db"}

\* a task is inside import_zip
Importing(p) == pc[p] \in ImportPcs
ImportInProgress == \E p \in Importers : Importing(p)

\* where a task continues when import_zip returns
AfterImport(p) == IF p = "upload" THEN "done" ELSE "clear_loading"

DictIdle ==
    /\ dictionaries = [i \in DictIds |-> NoDict]
    /\ next_dict_id = 1
    /\ loading = FALSE
    /\ terms = {}
    /\ dict_lock = None
    /\ id_lock = None
    /\ pc = [p \in Procs |-> "off"]
    /\ dict_id = [p \in Importers |-> 0]
    /\ import_result = [p \in Importers |-> None]
    /\ lookup_status = 0
    /\ lookup_importing = FALSE
    /\ restarts = 0

\* AppState::new, and every task before its first step
DictInit ==
    /\ dictionaries = [i \in DictIds |-> NoDict]
    /\ next_dict_id = 1
    /\ loading = FALSE
    /\ terms = {}
    /\ dict_lock = None
    /\ id_lock = None
    /\ pc \in {f \in [Procs -> {"start", "off"}] :
                   Cardinality({p \in Procs : f[p] = "start"}) <= MaxTasks}
    /\ dict_id = [p \in Importers |-> 0]
    /\ import_result = [p \in Importers |-> None]
    /\ lookup_status = 0
    /\ lookup_importing = FALSE
    /\ restarts = 0

\* AppState::set_loading
set_loading(val) == loading' = val

\* create_router's startup task and install_defaults_handler: read the map
\* under the read lock; import only when it is empty
CheckEmpty(p) ==
    /\ p \in {"prebake", "install"}
    /\ pc[p] = "start"
    /\ dict_lock = None
    /\ pc' = [pc EXCEPT ![p] = IF is_empty(dictionaries) THEN "set_loading" ELSE "done"]
    /\ UNCHANGED <<dictionaries, next_dict_id, loading, terms, dict_lock, id_lock, dict_id,
                   import_result, lookup_status, lookup_importing, restarts, notDict>>

\* set_loading(true) of the startup task and of install_defaults_handler
SetLoading(p) ==
    /\ p \in {"prebake", "install"}
    /\ pc[p] = "set_loading"
    /\ set_loading(TRUE)
    /\ pc' = [pc EXCEPT ![p] = "imp_parse"]
    /\ UNCHANGED <<dictionaries, next_dict_id, terms, dict_lock, id_lock, dict_id,
                   import_result, lookup_status, lookup_importing, restarts, notDict>>

\* reset_db_handler: set_loading(true)
ResetStart ==
    /\ pc["reset"] = "start"
    /\ set_loading(TRUE)
    /\ pc' = [pc EXCEPT !["reset"] = "reset_lock_dicts"]
    /\ UNCHANGED <<dictionaries, next_dict_id, terms, dict_lock, id_lock, dict_id,
                   import_result, lookup_status, lookup_importing, restarts, notDict>>

\* reset_db_handler: dictionaries.write(), clear
ResetLockDicts ==
    /\ pc["reset"] = "reset_lock_dicts"
    /\ dict_lock = None
    /\ dict_lock' = "reset"
    /\ dictionaries' = [i \in DictIds |-> NoDict]
    /\ pc' = [pc EXCEPT !["reset"] = "reset_lock_id"]
    /\ UNCHANGED <<next_dict_id, loading, terms, id_lock, dict_id, import_result,
                   lookup_status, lookup_importing, restarts, notDict>>

\* reset_db_handler: next_dict_id.write(), *next_id = 1, both guards dropped
ResetLockId ==
    /\ pc["reset"] = "reset_lock_id"
    /\ id_lock = None
    /\ next_dict_id' = 1
    /\ dict_lock' = None
    /\ pc' = [pc EXCEPT !["reset"] = "reset_db"]
    /\ UNCHANGED <<dictionaries, loading, terms, id_lock, dict_id, import_result,
                   lookup_status, lookup_importing, restarts, notDict>>

\* reset_db_handler: DELETE FROM terms (and the other tables) in one
\* transaction whose errors are ignored, then import_zip
ResetDb ==
    /\ pc["reset"] = "reset_db"
    /\ \E ok \in BOOLEAN : terms' = IF ok THEN {} ELSE terms
    /\ pc' = [pc EXCEPT !["reset"] = "imp_parse"]
    /\ UNCHANGED <<dictionaries, next_dict_id, loading, dict_lock, id_lock, dict_id,
                   import_result, lookup_status, lookup_importing, restarts, notDict>>

\* import_handler: the upload is read and handed to import_zip
UploadStart ==
    /\ pc["upload"] = "start"
    /\ pc' = [pc EXCEPT !["upload"] = "imp_parse"]
    /\ UNCHANGED <<dictionaries, next_dict_id, loading, terms, dict_lock, id_lock, dict_id,
                   import_result, lookup_status, lookup_importing, restarts, notDict>>

\* import_zip: open the archive and read index.json; an uploaded archive may
\* be unreadable
ImportParse(p) ==
    /\ pc[p] = "imp_parse"
    /\ \E ok \in (IF p = "upload" THEN BOOLEAN ELSE {TRUE}) :
         IF ok
         THEN /\ pc' = [pc EXCEPT ![p] = "imp_lock_id"]
              /\ UNCHANGED import_result
         ELSE /\ pc' = [pc EXCEPT ![p] = AfterImport(p)]
              /\ import_result' = [import_result EXCEPT ![p] = "Err"]
    /\ UNCHANGED <<dictionaries, next_dict_id, loading, terms, dict_lock, id_lock, dict_id,
                   lookup_status, lookup_importing, restarts, notDict>>

\* import_zip: next_dict_id.write(); dict_id = *next_id; *next_id += 1
ImportLockId(p) ==
    /\ pc[p] = "imp_lock_id"
    /\ id_lock = None
    /\ next_dict_id < MaxDictId
    /\ id_lock' = p
    /\ dict_id' = [dict_id EXCEPT ![p] = next_dict_id]
    /\ next_dict_id' = next_dict_id + 1
    /\ pc' = [pc EXCEPT ![p] = "imp_lock_dicts"]
    /\ UNCHANGED <<dictionaries, loading, terms, dict_lock, import_result, lookup_status,
                   lookup_importing, restarts, notDict>>

\* import_zip: dictionaries.write(); insert; both guards dropped
ImportLockDicts(p) ==
    /\ pc[p] = "imp_lock_dicts"
    /\ dict_lock = None
    /\ dictionaries' = [dictionaries EXCEPT ![dict_id[p]] = [name |-> ZipOf(p)]]
    /\ id_lock' = None
    /\ pc' = [pc EXCEPT ![p] = "imp_db"]
    /\ UNCHANGED <<next_dict_id, loading, terms, dict_lock, dict_id, import_result,
                   lookup_status, lookup_importing, restarts, notDict>>

\* import_zip: pool.get(), the transaction, the inserts and the commit; any
\* of them may fail, and the rows appear only with the commit
ImportDb(p) ==
    /\ pc[p] = "imp_db"
    /\ \E ok \in BOOLEAN :
         /\ terms' = IF ok THEN terms \cup {[dictionary_id |-> dict_id[p], zip |-> ZipOf(p), task |-> p,
                                           run |-> restarts]}
                     ELSE terms
         /\ import_result' = [import_result EXCEPT ![p] = IF ok THEN "Ok" ELSE "Err"]
    /\ pc' = [pc EXCEPT ![p] = AfterImport(p)]
    /\ UNCHANGED <<dictionaries, next_dict_id, loading, dict_lock, id_lock, dict_id,
                   lookup_status, lookup_importing, restarts, notDict>>

\* set_loading(false) after import_zip returned (startup task,
\* install_defaults_handler, reset_db_handler)
ClearLoading(p) ==
    /\ p \in {"prebake", "install", "reset"}
    /\ pc[p] = "clear_loading"
    /\ set_loading(FALSE)
    /\ pc' = [pc EXCEPT ![p] = "done"]
    /\ UNCHANGED <<dictionaries, next_dict_id, terms, dict_lock, id_lock, dict_id,
                   import_result, lookup_status, lookup_importing, restarts, notDict>>

\* lookup_handler: 503 when is_loading(), the search otherwise
LookupHandler ==
    /\ pc["lookup"] = "start"
    /\ lookup_status' = IF loading THEN 503 ELSE 200
    /\ lookup_importing' = ImportInProgress
    /\ pc' = [pc EXCEPT !["lookup"] = "done"]
    /\ UNCHANGED <<dictionaries, next_dict_id, loading, terms, dict_lock, id_lock, dict_id,
                   import_result, restarts, notDict>>

\* the process is stopped and started again: AppState::new gives an empty map,
\* next_dict_id 1 and loading false, the database file keeps its rows, and the
\* tasks of the old process are gone
Restart ==
    /\ restarts < MaxRestarts
    /\ restarts' = restarts + 1
    /\ dictionaries' = [i \in DictIds |-> NoDict]
    /\ next_dict_id' = 1
    /\ loading' = FALSE
    /\ dict_lock' = None
    /\ id_lock' = None
    /\ pc' \in {f \in [Procs -> {"start", "off"}] :
                    Cardinality({p \in Procs : f[p] = "start"}) <= MaxTasks}
    /\ dict_id' = [p \in Importers |-> 0]
    /\ import_result' = [p \in Importers |-> None]
    /\ lookup_status' = 0
    /\ lookup_importing' = FALSE
    /\ UNCHANGED <<terms, notDict>>

DictNext ==
    \/ \E p \in {"prebake", "install"} : CheckEmpty(p) \/ SetLoading(p)
    \/ ResetStart \/ ResetLockDicts \/ ResetLockId \/ ResetDb
    \/ UploadStart
    \/ \E p \in Importers : ImportParse(p) \/ ImportLockId(p) \/ ImportLockDicts(p) \/ ImportDb(p)
    \/ \E p \in {"prebake", "install", "reset"} : ClearLoading(p)
    \/ LookupHandler
    \/ Restart

\* C2: while an import is in progress (startup prebake, install-defaults,
\* reset or an uploaded ZIP) the loading flag is true, and a lookup that
\* arrives during an import answers 503.
C2_LoadingWhileImporting ==
    /\ ImportInProgress => loading
    /\ (lookup_status # 0 /\ lookup_importing) => lookup_status = 503

\* reset holds the map lock and waits for the counter lock, which an import
\* holds while it waits for the map lock
LockCycle(p) ==
    /\ pc["reset"] = "reset_lock_id"
    /\ dict_lock = "reset"
    /\ pc[p] = "imp_lock_dicts"
    /\ id_lock = p

\* C27: reset_db_handler running concurrently with an import never deadlocks:
\* there is no state in which reset waits for the counter lock while it holds
\* the map lock and an import waits for the map lock while it holds the
\* counter lock
C27_NoLockCycle == \A p \in Importers \ {"reset"} : ~LockCycle(p)

\* C28: when import_zip returns an error after it has registered the
\* dictionary, the map does not list the dictionary it registered and the
\* counter is back at the id it handed out, so no dictionary is listed that has
\* no committed term rows
C28_FailedImportUnregistered ==
    \A p \in Importers :
        (/\ import_result[p] = "Err"
         /\ dict_id[p] # 0
         /\ \A q \in Importers \ {p} : pc[q] \in {"off", "start"}) =>
            /\ dictionaries[dict_id[p]] = NoDict
            /\ next_dict_id = dict_id[p]

\* no task is between two of its steps
Quiescent == \A p \in Procs : pc[p] \in {"off", "start", "done"}

\* C29: after any sequence and interleaving of import, reset and restart,
\* every row of the terms table carries a dictionary_id that is a key of the
\* map, and no two imports that have rows in the table at the same time share
\* an id
C29_RowsBelongToListedDictionary ==
    Quiescent =>
        /\ \A row \in terms : dictionaries[row.dictionary_id] # NoDict
        /\ \A r1, r2 \in terms :
              r1.dictionary_id = r2.dictionary_id =>
                  (r1.task = r2.task /\ r1.run = r2.run)

\* the copies of the default dictionary that the map holds
DefaultCopies == {i \in DictIds : dictionaries[i] = [name |-> PREBAKED_DICT]}

\* C30: when only install-defaults and the startup prebake run, at most one of
\* them calls import_zip and the map holds at most one copy of the default
\* dictionary
C30_DefaultImportedOnce ==
    (pc["reset"] = "off" /\ pc["upload"] = "off") =>
        /\ ~(Importing("prebake") /\ Importing("install"))
        /\ Cardinality(DefaultCopies) <= 1

\* ------------------------------------- build_audio_clip: select and fetch
\* Option<T>: <<>> is None, <<x>> is Some(x)
Nothing == <<>>
Some(x) == <<x>>
IsSome(o) == o # <<>>
Unwrap(o) == o[1]

MAX_SEGMENTS == 128

\* bounds: the playlist length and the window times tried
MaxSegs == 3
MaxT == 4
\* one long playlist of plain segments of one second is tried as well, with
\* a window that ends after its last segment
MaxLongSegs == 130
LongEnd == MaxT + MaxLongSegs

\* the values the segments of the playlists tried carry
Durations == {1, 2}
ExtXByteRange(s, e) == [start |-> s, end |-> e]
ByteRangeTags == {ExtXByteRange(Some(0), 2), ExtXByteRange(Some(2), 2),
                  ExtXByteRange(Nothing, 3), ExtXByteRange(Nothing, 1)}
\* the uri of an initialization section is 0 or less; the uri of a segment
\* is its position
InitMap == [uri |-> 0, range |-> Nothing]
\* the map tags tried: the file whole, a byte range of it, and the file
\* named with a fragment
InitMaps == {InitMap,
             [uri |-> 0, range |-> Some(ExtXByteRange(Some(0), 2))],
             [uri |-> -1, range |-> Nothing]}

\* the keys of a segment: an entry that is none (no encryption), or a key
SegmentKeys == {<<Nothing>>, <<Some("AES-128")>>}

\* a segment of a media playlist as hls_m3u8 hands it over; uri is set to
\* the segment's position when the segment is read
MediaSegment(d, r, m, k) == [uri |-> 0, duration |-> d, byte_range |-> r, map |-> m, keys |-> k]
Segments ==
    {MediaSegment(d, Nothing, Nothing, <<>>) : d \in Durations}
    \cup {MediaSegment(1, Some(r), Nothing, <<>>) : r \in ByteRangeTags}
    \cup {MediaSegment(1, Nothing, Some(m), <<>>) : m \in InitMaps}
    \cup {MediaSegment(1, Nothing, Nothing, k) : k \in SegmentKeys}

\* the length and the segments of the playlists tried with a window end
PlaylistBound(end) == IF end > MaxT THEN MaxLongSegs ELSE MaxSegs
SegmentsTried(end) == IF end > MaxT THEN {MediaSegment(1, Nothing, Nothing, <<>>)} ELSE Segments

\* a cap that lets one segment more through
reached_cap_late(n) == n > MAX_SEGMENTS
\* if selections.len() >= MAX_SEGMENTS { break; }
reached_cap(n) == n >= MAX_SEGMENTS

\* a variant that never sees a key
no_key_is_some(keys) == FALSE

\* segment.keys.iter().any(|key| key.is_some())
any_key_is_some(keys) == \E n \in 1..Len(keys) : IsSome(keys[n])

ResolvedByteRange(s, e) == [start |-> s, end |-> e]

resolve_range_from_ext_byte_range(range, last_end) ==
    ResolvedByteRange(IF IsSome(range.start) THEN Unwrap(range.start)
                      ELSE IF IsSome(last_end) THEN Unwrap(last_end) ELSE 0,
                      range.end)

resolve_range_from_byte_range(range) ==
    ResolvedByteRange(IF IsSome(range.start) THEN Unwrap(range.start) ELSE 0, range.end)

\* the MapSelection of a segment's map tag
MapSelection(map) ==
    [url |-> map.uri,
     byte_range |-> IF IsSome(map.range) THEN Some(resolve_range_from_byte_range(Unwrap(map.range)))
                    ELSE Nothing]

\* select_segments: the test that a segment is included
\* a test that takes only the segments that lie within the window
OverlapsWithin(seg_start, seg_end, start, end) == seg_start >= start /\ seg_end <= end
OverlapsStrict(seg_start, seg_end, start, end) == seg_end > start /\ seg_start <= end
Overlaps(seg_start, seg_end, start, end) == seg_end >= start /\ seg_start <= end

\* a cursor that stays where the segment starts
seg_end_unmoved(seg_start, d) == seg_start
\* seg_end = seg_start + duration, the next value of time_cursor
seg_end_after(seg_start, d) == seg_start + d

\* select_segments: what is pushed before the first included segment
NoPredecessor(sel, prev) == <<>>
Predecessor(sel, prev) == IF sel = <<>> /\ IsSome(prev) THEN <<Unwrap(prev)>> ELSE <<>>

BuildIdle ==
    /\ playlist = <<>>
    /\ target_start = 0
    /\ target_end = 0
    /\ build_pc = "off"
    /\ time_cursor = 0
    /\ last_map = Nothing
    /\ last_byte_range_end = Nothing
    /\ previous_segment = Nothing
    /\ selections = <<>>
    /\ scan_stopped = FALSE
    /\ fetch_index = 0
    /\ map_cache = {}
    /\ requests = <<>>
    /\ build_error = None

\* build_audio_clip when the playlist has arrived: select_segments starts
BuildInit ==
    /\ playlist = <<>>
    /\ \/ target_start \in 0..MaxT /\ target_end \in target_start..MaxT
       \/ target_start \in {0, 2} /\ target_end = LongEnd
    /\ build_pc = "select"
    /\ time_cursor = 0
    /\ last_map = Nothing
    /\ last_byte_range_end = Nothing
    /\ previous_segment = Nothing
    /\ selections = <<>>
    /\ scan_stopped = FALSE
    /\ fetch_index = 0
    /\ map_cache = {}
    /\ requests = <<>>
    /\ build_error = None

\* select_segments: one pass of the loop, over the next segment of the playlist
SelectStep ==
    /\ build_pc = "select"
    /\ Len(playlist) < PlaylistBound(target_end)
    /\ \E read \in SegmentsTried(target_end) :
         LET segment == [read EXCEPT !.uri = Len(playlist) + 1]
             new_map == IF IsSome(segment.map) THEN Some(MapSelection(Unwrap(segment.map)))
                        ELSE last_map
             seg_start == time_cursor
             seg_end == seg_end_after(seg_start, segment.duration)
             byte_range == IF IsSome(segment.byte_range)
                           THEN Some(resolve_range_from_ext_byte_range(
                                       Unwrap(segment.byte_range), last_byte_range_end))
                           ELSE Nothing
             selection == [url |-> segment.uri, byte_range |-> byte_range,
                           start_time |-> seg_start, map |-> new_map,
                           encrypted |-> any_key_is_some(segment.keys)]
             included == Overlaps(seg_start, seg_end, target_start, target_end)
             pushed == IF included
                       THEN Predecessor(selections, previous_segment) \o selections
                              \o <<selection>>
                       ELSE selections
             capped == included /\ reached_cap(Len(pushed))
         IN  /\ playlist' = Append(playlist, segment)
             /\ last_map' = new_map
             /\ last_byte_range_end' = IF IsSome(segment.byte_range)
                                       THEN Some(Unwrap(segment.byte_range).end)
                                       ELSE Nothing
             /\ selections' = pushed
             /\ IF capped
                THEN /\ previous_segment' = IF selections = <<>> THEN Nothing
                                            ELSE previous_segment
                     /\ time_cursor' = time_cursor
                     /\ scan_stopped' = TRUE
                     /\ build_pc' = "selected"
                ELSE /\ previous_segment' = Some(selection)
                     /\ time_cursor' = seg_end
                     /\ scan_stopped' = (seg_end > target_end)
                     /\ build_pc' = IF seg_end > target_end THEN "selected" ELSE "select"
    /\ UNCHANGED <<target_start, target_end, fetch_index, map_cache, requests, build_error,
                   notBuild>>

\* select_segments: the playlist has no further segment
EndOfPlaylist ==
    /\ build_pc = "select"
    /\ build_pc' = "selected"
    /\ UNCHANGED <<playlist, target_start, target_end, time_cursor, last_map,
                   last_byte_range_end, previous_segment, selections, scan_stopped,
                   fetch_index, map_cache, requests, build_error, notBuild>>

\* a segment of the playlist that select_segments never reads, because it
\* left its loop by a break
UnreadSegment ==
    /\ build_pc = "selected"
    /\ scan_stopped
    /\ Len(playlist) < PlaylistBound(target_end)
    /\ \E read \in SegmentsTried(target_end) :
         playlist' = Append(playlist, [read EXCEPT !.uri = Len(playlist) + 1])
    /\ UNCHANGED <<target_start, target_end, build_pc, time_cursor, last_map,
                   last_byte_range_end, previous_segment, selections, scan_stopped,
                   fetch_index, map_cache, requests, build_error, notBuild>>

\* build_audio_clip: an empty selection is an error
SelectionReturned ==
    /\ build_pc = "selected"
    /\ IF selections = <<>>
       THEN build_pc' = "failed" /\ build_error' = "No matching segments found"
       ELSE build_pc' = "fetch" /\ UNCHANGED build_error
    /\ UNCHANGED <<playlist, target_start, target_end, time_cursor, last_map,
                   last_byte_range_end, previous_segment, selections, scan_stopped,
                   fetch_index, map_cache, requests, notBuild>>

\* format!("{}", n) of a usize, digit by digit
Digit(d) == CASE d = 0 -> "0" [] d = 1 -> "1" [] d = 2 -> "2" [] d = 3 -> "3" [] d = 4 -> "4"
              [] d = 5 -> "5" [] d = 6 -> "6" [] d = 7 -> "7" [] d = 8 -> "8" [] d = 9 -> "9"
RECURSIVE Decimal(_)
Decimal(n) == IF n < 10 THEN <<Digit(n)>> ELSE Decimal(n \div 10) \o <<Digit(n % 10)>>

\* Url::as_str of the urls tried, as pieces of text: the initialization
\* file, the same file with the fragment #0:2, and the segments
as_str(url) ==
    IF url = 0 THEN <<"init.mp4">>
    ELSE IF url < 0 THEN <<"init.mp4", "#", "0", ":", "2">>
    ELSE <<"seg">> \o Decimal(url)

\* map_cache_key: format!("{}#{}:{}", url, start, end), or the url alone
map_cache_key(url, range) ==
    IF IsSome(range)
    THEN as_str(url) \o <<"#">> \o Decimal(Unwrap(range).start) \o <<":">>
           \o Decimal(Unwrap(range).end)
    ELSE as_str(url)

\* map_cache.get(&cache_key); an entry holds the bytes by the request that
\* fetched them
cache_get(cache, cache_key) ==
    IF \E e \in cache : e.key = cache_key
    THEN Some((CHOOSE e \in cache : e.key = cache_key).bytes)
    ELSE Nothing

\* fetch_bytes: the range it refuses
InvalidByteRangeLax(range) == IsSome(range) /\ Unwrap(range).end < Unwrap(range).start
InvalidByteRange(range) == IsSome(range) /\ Unwrap(range).end <= Unwrap(range).start

\* fetch_bytes: the request it sends (saturating_sub keeps end - 1 at 0 or more)
ByteRequest(url, range) ==
    [url |-> url,
     range |-> IF IsSome(range)
               THEN Some([first |-> Unwrap(range).start,
                          last |-> IF Unwrap(range).end = 0 THEN 0 ELSE Unwrap(range).end - 1])
               ELSE Nothing]

\* build_audio_clip: one pass of the loop over the selected segments, up to
\* fetch_segment_bytes
FetchSegment ==
    /\ build_pc = "fetch"
    /\ fetch_index < Len(selections)
    /\ LET segment == selections[fetch_index + 1]
           has_map == IsSome(segment.map)
           map == Unwrap(segment.map)
           cache_key == map_cache_key(map.url, map.byte_range)
           cached == has_map /\ IsSome(cache_get(map_cache, cache_key))
           map_fetched == has_map /\ ~cached
           map_refused == map_fetched /\ InvalidByteRange(map.byte_range)
           map_request == IF map_fetched /\ ~map_refused
                          THEN <<ByteRequest(map.url, map.byte_range)>> ELSE <<>>
           seg_refused == InvalidByteRange(segment.byte_range)
       IN  IF segment.encrypted
           THEN /\ build_pc' = "failed"
                /\ build_error' = "Encrypted HLS segments are not supported"
                /\ UNCHANGED <<fetch_index, map_cache, requests>>
           ELSE IF map_refused
           THEN /\ build_pc' = "failed"
                /\ build_error' = "Invalid byte range"
                /\ UNCHANGED <<fetch_index, map_cache, requests>>
           ELSE /\ map_cache' = IF map_fetched
                                THEN map_cache \cup {[key |-> cache_key,
                                                      bytes |-> ByteRequest(map.url, map.byte_range)]}
                                ELSE map_cache
                /\ IF seg_refused
                   THEN /\ build_pc' = "failed"
                        /\ build_error' = "Invalid byte range"
                        /\ requests' = requests \o map_request
                        /\ UNCHANGED fetch_index
                   ELSE /\ requests' = requests \o map_request
                                         \o <<ByteRequest(segment.url, segment.byte_range)>>
                        /\ fetch_index' = fetch_index + 1
                        /\ UNCHANGED <<build_pc, build_error>>
    /\ UNCHANGED <<playlist, target_start, target_end, time_cursor, last_map,
                   last_byte_range_end, previous_segment, selections, scan_stopped, notBuild>>

\* build_audio_clip: every selected segment has been fetched
FetchDone ==
    /\ build_pc = "fetch"
    /\ fetch_index = Len(selections)
    /\ build_pc' = "done"
    /\ UNCHANGED <<playlist, target_start, target_end, time_cursor, last_map,
                   last_byte_range_end, previous_segment, selections, scan_stopped,
                   fetch_index, map_cache, requests, build_error, notBuild>>

BuildNext ==
    \/ SelectStep \/ EndOfPlaylist \/ UnreadSegment \/ SelectionReturned
    \/ FetchSegment \/ FetchDone

\* playlist times of segment i: the sum of the durations before it, and its end
RECURSIVE SegStart(_, _)
SegStart(pl, i) == IF i <= 1 THEN 0 ELSE SegStart(pl, i - 1) + pl[i - 1].duration
SegEnd(pl, i) == SegStart(pl, i) + pl[i].duration

\* segment i of the playlist and the window [target_start, target_end], both
\* taken as closed intervals, share a point
InWindow(i) == SegEnd(playlist, i) >= target_start /\ SegStart(playlist, i) <= target_end
FirstInWindow == CHOOSE i \in 1..Len(playlist) :
                    InWindow(i) /\ \A j \in 1..(i - 1) : ~InWindow(j)

\* C3: the selection is a run of consecutive playlist segments in playlist
\* order (no gap, no repeat), and when the first segment that overlaps the
\* window has a predecessor in the playlist, the selection starts with that
\* predecessor.
C3_ContiguousWithPredecessor ==
    /\ \A k \in 1..Len(selections) : selections[k].url \in 1..Len(playlist)
    /\ \A k \in 1..(Len(selections) - 1) : selections[k + 1].url = selections[k].url + 1
    /\ (\E i \in 1..Len(playlist) : InWindow(i)) /\ FirstInWindow > 1
          => selections # <<>> /\ selections[1].url = FirstInWindow - 1

C3_Witness ==
    /\ build_pc = "selected"
    /\ \E i \in 1..Len(playlist) : InWindow(i)
    /\ FirstInWindow = 2
    /\ Len(selections) = 3
    /\ selections[1].url = 1

\* C15 as claimed: when a selected segment carries a key attribute the build
\* never gets past it and no bytes of that segment are requested.
C15_Stopped(k) ==
    /\ build_pc # "done"
    /\ \A n \in 1..Len(requests) : requests[n].url # selections[k].url

C17_StartIsSumOfDurations ==
    \A k \in 1..Len(selections) :
        selections[k].start_time = SegStart(playlist, selections[k].url)

C17_Witness ==
    /\ Len(selections) = 2
    /\ selections[1].url = 2
    /\ selections[2].url = 3
    /\ selections[1].start_time > 0
    /\ selections[2].start_time > selections[1].start_time
    /\ \/ IsSome(playlist[1].byte_range)
       \/ IsSome(playlist[1].map)
       \/ playlist[1].keys # <<>>

\* fetch_segment_bytes: the data it returns, the bytes named by the requests
\* that gave them: the map's bytes as the cache holds them, then the segment's
fetch_segment_data(segment, cache) ==
    [map |-> IF IsSome(segment.map)
             THEN cache_get(cache, map_cache_key(Unwrap(segment.map).url,
                                                 Unwrap(segment.map).byte_range))
             ELSE Nothing,
     segment |-> ByteRequest(segment.url, segment.byte_range)]

C20_MapRequest(k) ==
    ByteRequest(Unwrap(selections[k].map).url, Unwrap(selections[k].map).byte_range)
C20_WithMap == {k \in 1..Len(selections) : IsSome(selections[k].map)}
C20_FetchedOnce ==
    \A k \in C20_WithMap :
        Cardinality({n \in 1..Len(requests) : requests[n] = C20_MapRequest(k)}) <= 1
C20_OwnMapFirst ==
    \A k \in C20_WithMap :
        k <= fetch_index =>
            fetch_segment_data(selections[k], map_cache).map = Some(C20_MapRequest(k))
C20_EmptyAtStart == (build_pc \in {"select", "selected"} \/ requests = <<>>) => map_cache = {}

\* C20: in one build every distinct init map (url, byte range) is fetched
\* at most once; every fetched segment that has a map is handed on as the
\* bytes of that map followed by its own; the cache starts empty.
C20_InitMapCachedOncePerBuild ==
    /\ C20_FetchedOnce
    /\ C20_OwnMapFirst
    /\ C20_EmptyAtStart

C24_Included(sel, pl) ==
    {sel[k].url : k \in 1..Len(sel)}
      \ (IF sel # <<>> /\ (SegEnd(pl, sel[1].url) < target_start \/ SegStart(pl, sel[1].url) > target_end)
         THEN {sel[1].url} ELSE {})
C24_Scan ==
    build_pc = "select" =>
        /\ C24_Included(selections', playlist')
              = {i \in 1..Len(playlist') : /\ SegEnd(playlist', i) >= target_start
                                            /\ SegStart(playlist', i) <= target_end}
        /\ Len(playlist') > Len(playlist) =>
              \A i \in 1..Len(playlist) : SegEnd(playlist, i) <= target_end

\* C24: the selection never holds more than 128 segments, predecessor
\* included; apart from the one prepended predecessor it holds exactly the
\* scanned segments with seg_end >= start and seg_start <= end; and no
\* segment is scanned after the first whose end is past the window end.
C24_CappedOverlappingScan == [](Len(selections) <= 128) /\ [][C24_Scan]_vars

C24_Witness ==
    /\ build_pc = "selected"
    /\ scan_stopped
    /\ target_start = 2
    /\ Len(selections) = 128
    /\ selections[1].url = 1
    /\ Len(playlist) > 129

RECURSIVE C25_Duration(_)
C25_Duration(sel) ==
    IF sel = <<>> THEN 0 ELSE playlist[Head(sel).url].duration + C25_Duration(Tail(sel))
C25_Returned == build_pc \notin {"off", "select"} /\ selections # <<>>

\* C25 as claimed: whenever the selection is not empty, the durations of the
\* selected segments sum to at least end - start.
C25_CoversWindow ==
    C25_Returned => C25_Duration(selections) >= target_end - target_start

\* C25, amended: whenever the selection is not empty, has fewer than 128
\* segments, and the playlist lasts at least until end (with start >= 0), the
\* durations of the selected segments sum to at least end - start.
C25_CoversWindowWithinPlaylist ==
    (/\ C25_Returned
     /\ Len(selections) < 128
     /\ target_start >= 0
     /\ SegEnd(playlist, Len(playlist)) >= target_end) =>
        C25_Duration(selections) >= target_end - target_start

C25_Witness ==
    /\ C25_Returned
    /\ Len(playlist) = 3
    /\ SegEnd(playlist, Len(playlist)) >= target_end
    /\ target_start = 1
    /\ target_end = 3
    /\ playlist[1].duration = 2
    /\ Len(selections) = 2
    /\ C25_Duration(selections) = 4

\* C8 as claimed: every byte range of the selection has end > start, and a
\* continuation range (no explicit start) starts at the end of the previous
\* segment's range, the remembered end being cleared by a segment without a
\* byte range.
C8_RangeStartsWhere(k) ==
    LET tag == Unwrap(playlist[selections[k].url].byte_range)
        before == selections[k].url - 1
    IN  IF IsSome(tag.start) THEN Unwrap(tag.start)
        ELSE IF before >= 1 /\ IsSome(playlist[before].byte_range)
             THEN Unwrap(playlist[before].byte_range).end
             ELSE 0

C8_Continuation ==
    \A k \in 1..Len(selections) :
        IsSome(selections[k].byte_range) =>
            /\ IsSome(playlist[selections[k].url].byte_range)
            /\ Unwrap(selections[k].byte_range).start = C8_RangeStartsWhere(k)
            /\ Unwrap(selections[k].byte_range).end
                 = Unwrap(playlist[selections[k].url].byte_range).end

C8_EveryRangeNonEmpty ==
    /\ \A k \in 1..Len(selections) :
          IsSome(selections[k].byte_range) =>
              Unwrap(selections[k].byte_range).end > Unwrap(selections[k].byte_range).start
    /\ C8_Continuation

\* C8 as amended: the selector takes the end of a range from the tag without
\* comparing it with the start, so a selected range may have end <= start;
\* fetch_bytes refuses such a range ("Invalid byte range") before it sends a
\* request, so every range requested has end > start and a build that
\* fetched all its segments selected no such range.  The continuation rule
\* is as claimed.
C8_RequestedRangesNonEmpty ==
    /\ C8_Continuation
    /\ \A n \in 1..Len(requests) :
          IsSome(requests[n].range) =>
              Unwrap(requests[n].range).last >= Unwrap(requests[n].range).first
    /\ \A k \in 1..fetch_index :
          IsSome(selections[k].byte_range) =>
              Unwrap(selections[k].byte_range).end > Unwrap(selections[k].byte_range).start

C8_Witness ==
    /\ build_pc = "failed"
    /\ build_error = "Invalid byte range"
    /\ fetch_index = 1
    /\ IsSome(selections[1].byte_range)
    /\ LET range == Unwrap(selections[2].byte_range)
       IN  /\ playlist[selections[2].url].byte_range = Some(ExtXByteRange(Nothing, 1))
           /\ range.start = 2
           /\ range.end = 1

\* ------------------------------------------- audio-server: the windower
\* decode_samples_from_bytes on the data of one selected segment.  Times are
\* exact multiples of 1/TicksPerSecond second; a position is a time
\* multiplied by the sample rate, so that one frame is TicksPerSecond
\* positions long and floor/ceil to whole frames are exact.
TicksPerSecond == 5
MaxSeconds == 2
Rates == {1, 2}
PacketFrames == {1, 2}
Channels == {1, 2}
SegmentStarts == {s * TicksPerSecond : s \in 0..MaxSeconds}
SegmentDurations == {s * TicksPerSecond : s \in 1..MaxSeconds}
WindowTimes == 0..((MaxSeconds + 1) * TicksPerSecond)
FirstPts == {Nothing} \cup {Some(t) : t \in SegmentStarts}

Max(a, b) == IF a >= b THEN a ELSE b
Min(a, b) == IF a <= b THEN a ELSE b
floor(position) == position \div TicksPerSecond
ceil(position) == -((-position) \div TicksPerSecond)
round(position) == (2 * position + TicksPerSecond) \div (2 * TicksPerSecond)

\* base_time.unwrap_or(segment_start)
decode_base_time == IF IsSome(base_time) THEN Unwrap(base_time) ELSE segment_start

buffer_start == decode_base_time * sample_rate + cursor_frames * TicksPerSecond
buffer_end(frame_count) == buffer_start + frame_count * TicksPerSecond
overlap_start == Max(window_start * sample_rate, buffer_start)
overlap_end(frame_count) == Min(window_end * sample_rate, buffer_end(frame_count))
\* an f64 product next to a whole number can land on either side of it: the
\* rounding of (overlap - buffer_start) * rate_f is a choice of less than one tick
Rounding == {-1, 0, 1}
f64_floor(position, rounding) == (2 * position + rounding) \div (2 * TicksPerSecond)
f64_ceil(position, rounding) == -((-(2 * position + rounding)) \div (2 * TicksPerSecond))
start_frame(rounding) == Max(f64_floor(overlap_start - buffer_start, rounding), 0)
end_frame(frame_count, rounding) ==
    Max(f64_ceil(overlap_end(frame_count) - buffer_start, rounding), 0)

end_index_unclamped(end, frame_count, count) == end * count

start_index(start, count) == start * count
end_index(end, frame_count, count) == Min(end * count, frame_count * count)

\* the slice of the buffer that the loop body appends to samples, if any
CopiedSlice(frame_count, count, rs, re) ==
    LET from == start_index(start_frame(rs), count)
        to == end_index(end_frame(frame_count, re), frame_count, count)
    IN  IF overlap_end(frame_count) > overlap_start /\ to > from
        THEN <<from, to>>
        ELSE <<0, 0>>

\* frames of the buffer that the loop body appends to samples
AppendedFrames(frame_count, rs, re) ==
    LET slice == CopiedSlice(frame_count, 1, rs, re)
    IN  slice[2] - slice[1]

\* the test that leaves the loop: it is made on segment_start, not on base_time
PastWindow(cursor) ==
    segment_start * sample_rate + cursor * TicksPerSecond >= window_end * sample_rate

WindowIdle ==
    /\ segment_start = 0
    /\ segment_duration = 0
    /\ sample_rate = 0
    /\ audio_frames = 0
    /\ window_start = 0
    /\ window_end = 0
    /\ base_time = Nothing
    /\ cursor_frames = 0
    /\ samples = 0
    /\ decode_pc = "off"
    /\ channels = 0
    /\ samples_len = 0
    /\ last_buffer = Nothing

\* a segment select_segments can have selected (it does not start after the
\* window), whose data holds the audio of exactly its duration
WindowInit ==
    /\ segment_start \in SegmentStarts
    /\ segment_duration \in SegmentDurations
    /\ sample_rate \in Rates
    /\ audio_frames = (segment_duration \div TicksPerSecond) * sample_rate
    /\ window_start \in WindowTimes
    /\ window_end \in WindowTimes
    /\ window_start < window_end
    /\ segment_start <= window_end
    /\ base_time \in FirstPts
    /\ cursor_frames = 0
    /\ samples = 0
    /\ decode_pc = "loop"
    /\ channels \in Channels
    /\ samples_len = 0
    /\ last_buffer = Nothing

\* one turn of the loop: a packet decoded to frame_count frames
DecodePacket ==
    /\ decode_pc = "loop"
    /\ \E frame_count \in PacketFrames, rs \in Rounding, re \in Rounding :
          LET slice == CopiedSlice(frame_count, channels, rs, re)
          IN  /\ cursor_frames + frame_count <= audio_frames
              /\ samples' = samples + AppendedFrames(frame_count, rs, re)
              /\ samples_len' = samples_len + (slice[2] - slice[1])
              /\ last_buffer' = Some([frames |-> frame_count,
                                      cursor |-> cursor_frames,
                                      overlaps |-> overlap_end(frame_count) > overlap_start,
                                      start_frame |-> start_frame(rs),
                                      end_frame |-> end_frame(frame_count, re),
                                      from |-> slice[1],
                                      to |-> slice[2]])
              /\ cursor_frames' = cursor_frames + frame_count
              /\ decode_pc' = IF PastWindow(cursor_frames + frame_count) THEN "done" ELSE "loop"
    /\ UNCHANGED <<segment_start, segment_duration, sample_rate, audio_frames,
                   window_start, window_end, base_time, channels, notWindow>>

\* next_packet fails at the end of the data
EndOfData ==
    /\ decode_pc = "loop"
    /\ cursor_frames = audio_frames
    /\ decode_pc' = "done"
    /\ UNCHANGED <<segment_start, segment_duration, sample_rate, audio_frames, window_start,
                   window_end, base_time, cursor_frames, samples, channels, samples_len,
                   last_buffer, notWindow>>

WindowNext == DecodePacket \/ EndOfData

\* C4: when the windower has finished a selected segment, the frames it
\* emitted are within one frame of round(overlap * rate), where overlap is
\* min(end, seg_end) - max(start, seg_start), and none when that overlap is
\* empty, whether the segment is timed from first_pts or from start_time.
C4_Overlap ==
    Min(window_end, segment_start + segment_duration) - Max(window_start, segment_start)

C4_FramesMatchOverlap ==
    decode_pc = "done" =>
        IF C4_Overlap <= 0
        THEN samples = 0
        ELSE LET expected == round(C4_Overlap * sample_rate)
             IN  samples - expected \in -1..1

\* C26 as claimed: every overlapping buffer has start_frame and end_frame within
\* [0, frames] and the windower copies exactly samples[start_frame*c .. end_frame*c]
C26_Buffer == Unwrap(last_buffer)

C26_CopiesUnclampedSlice ==
    (IsSome(last_buffer) /\ C26_Buffer.overlaps) =>
        /\ C26_Buffer.start_frame \in 0..C26_Buffer.frames
        /\ C26_Buffer.end_frame \in 0..C26_Buffer.frames
        /\ C26_Buffer.to - C26_Buffer.from =
              C26_Buffer.end_frame * channels - C26_Buffer.start_frame * channels

\* C26: an overlapping buffer of `frames` frames has start_frame within
\* [0, frames] and end_frame at least start_frame, and the windower copies exactly
\* samples[start_frame*c .. min(end_frame, frames)*c]; a buffer that does not
\* overlap the window adds nothing; the output length is always a multiple of c;
\* and cursor_frames grows by `frames` whether or not the buffer overlaps (the
\* buffer records the cursor it was decoded at)
C26_CopiesClampedSlice ==
    /\ samples_len = samples * channels
    /\ IsSome(last_buffer) =>
          /\ C26_Buffer.cursor + C26_Buffer.frames = cursor_frames
          /\ C26_Buffer.overlaps =>
                /\ C26_Buffer.start_frame \in 0..C26_Buffer.frames
                /\ C26_Buffer.end_frame >= C26_Buffer.start_frame
                /\ IF Min(C26_Buffer.end_frame, C26_Buffer.frames) > C26_Buffer.start_frame
                   THEN /\ C26_Buffer.from = C26_Buffer.start_frame * channels
                        /\ C26_Buffer.to =
                              Min(C26_Buffer.end_frame, C26_Buffer.frames) * channels
                   ELSE C26_Buffer.to = C26_Buffer.from
          /\ ~C26_Buffer.overlaps => C26_Buffer.to = C26_Buffer.from

\* a stereo buffer whose end_frame came out one past its frames, copied whole
C26_Witness ==
    /\ IsSome(last_buffer)
    /\ channels = 2
    /\ C26_Buffer.overlaps
    /\ C26_Buffer.frames = 2
    /\ C26_Buffer.end_frame = 3
    /\ C26_Buffer.from = 0
    /\ C26_Buffer.to = 4
    /\ samples_len = 8

\* --------------------------------- yomitan-server: calculate_furigana
\* Strings are sequences of chars; indices count chars from 0 as in the code,
\* so h_chars[i] of the code is headword[i + 1] here.
MaxLen == 3
Chars == {"a", "b"}
RECURSIVE StringsOfLen(_)
StringsOfLen(n) ==
    IF n = 0 THEN {<<>>}
    ELSE {Append(s, c) : s \in StringsOfLen(n - 1), c \in Chars}
Strings == UNION {StringsOfLen(n) : n \in 0..MaxLen}

\* chars[from..to] of the code: the chars of index from up to to - 1
Slice(chars, from, to) == SubSeq(chars, from + 1, to)
FuriganaPart(base, ruby) == [base |-> base, ruby |-> ruby]

\* the three pushes made once both ends are trimmed
PrefixPart(h_chars, hs) ==
    IF hs > 0 THEN <<FuriganaPart(Slice(h_chars, 0, hs), <<>>)>> ELSE <<>>
RootPart(h_chars, r_chars, hs, he, rs, re) ==
    IF hs < he
    THEN <<FuriganaPart(Slice(h_chars, hs, he), Slice(r_chars, rs, re))>>
    ELSE <<>>
SuffixPart(h_chars, he) ==
    IF he < Len(h_chars)
    THEN <<FuriganaPart(Slice(h_chars, he, Len(h_chars)), <<>>)>>
    ELSE <<>>

\* a variant that forgets the suffix
PartsWithoutSuffix(h_chars, r_chars, hs, he, rs, re) ==
    PrefixPart(h_chars, hs) \o RootPart(h_chars, r_chars, hs, he, rs, re)

TrimmedParts(h_chars, r_chars, hs, he, rs, re) ==
    PrefixPart(h_chars, hs) \o RootPart(h_chars, r_chars, hs, he, rs, re)
        \o SuffixPart(h_chars, he)

FuriganaIdle ==
    /\ headword = <<>>
    /\ reading = <<>>
    /\ h_start = 0
    /\ h_end = 0
    /\ r_start = 0
    /\ r_end = 0
    /\ parts = <<>>
    /\ furigana_pc = "off"

FuriganaInit ==
    /\ headword \in Strings
    /\ reading \in Strings
    /\ h_start = 0
    /\ h_end = 0
    /\ r_start = 0
    /\ r_end = 0
    /\ parts = <<>>
    /\ furigana_pc = "start"

\* the early return, or the four indices set up
FuriganaStart ==
    /\ furigana_pc = "start"
    /\ IF reading = <<>> \/ headword = reading
       THEN /\ parts' = <<FuriganaPart(headword, <<>>)>>
            /\ furigana_pc' = "done"
            /\ UNCHANGED <<h_end, r_end>>
       ELSE /\ h_end' = Len(headword)
            /\ r_end' = Len(reading)
            /\ furigana_pc' = "prefix"
            /\ UNCHANGED parts
    /\ UNCHANGED <<headword, reading, h_start, r_start, notFurigana>>

\* the first while loop: one turn, or its exit
TrimPrefix ==
    /\ furigana_pc = "prefix"
    /\ IF h_start < h_end /\ r_start < r_end /\ headword[h_start + 1] = reading[r_start + 1]
       THEN /\ h_start' = h_start + 1
            /\ r_start' = r_start + 1
            /\ UNCHANGED furigana_pc
       ELSE /\ furigana_pc' = "suffix"
            /\ UNCHANGED <<h_start, r_start>>
    /\ UNCHANGED <<headword, reading, h_end, r_end, parts, notFurigana>>

\* the second while loop: one turn, or its exit and the parts pushed
TrimSuffix ==
    /\ furigana_pc = "suffix"
    /\ IF h_end > h_start /\ r_end > r_start /\ headword[h_end] = reading[r_end]
       THEN /\ h_end' = h_end - 1
            /\ r_end' = r_end - 1
            /\ UNCHANGED <<parts, furigana_pc>>
       ELSE /\ parts' = TrimmedParts(headword, reading, h_start, h_end, r_start, r_end)
            /\ furigana_pc' = "done"
            /\ UNCHANGED <<h_end, r_end>>
    /\ UNCHANGED <<headword, reading, h_start, r_start, notFurigana>>

FuriganaNext == FuriganaStart \/ TrimPrefix \/ TrimSuffix

RECURSIVE ConcatBases(_)
ConcatBases(ps) == IF ps = <<>> THEN <<>> ELSE Head(ps).base \o ConcatBases(Tail(ps))

\* every part replaced by its ruby when the ruby is not empty, by its base otherwise
RECURSIVE ConcatRubies(_)
ConcatRubies(ps) ==
    IF ps = <<>> THEN <<>>
    ELSE (IF Head(ps).ruby # <<>> THEN Head(ps).ruby ELSE Head(ps).base)
         \o ConcatRubies(Tail(ps))

C5_BasesGiveHeadword ==
    furigana_pc = "done" => Len(parts) <= 3 /\ ConcatBases(parts) = headword

\* C5 as claimed: at most three parts, the bases concatenate to the headword,
\* and the parts with every non-empty ruby in place of its base concatenate
\* to the reading.
C5_RubiesGiveReading ==
    /\ C5_BasesGiveHeadword
    /\ furigana_pc = "done" => ConcatRubies(parts) = reading

\* C5 as amended: at most three parts whose bases concatenate to the
\* headword; the rubies in place of their bases give the reading exactly
\* when the headword equals the reading, or when the reading is not empty
\* and, once the shared prefix and then the shared suffix are trimmed, a
\* non-empty root is left in both the headword and the reading.
C5_RubiesGiveReadingWhenRooted ==
    /\ C5_BasesGiveHeadword
    /\ furigana_pc = "done" =>
          (ConcatRubies(parts) = reading
             <=> \/ headword = reading
                 \/ reading # <<>> /\ h_start < h_end /\ r_start < r_end)

C5_Witness ==
    /\ furigana_pc = "done"
    /\ Len(parts) = 3
    /\ parts[2].ruby # <<>>
    /\ parts[2].ruby # parts[2].base
    /\ ConcatRubies(parts) = reading
    /\ ConcatBases(parts) = headword

\* ------------------------------ yomitan-server: LookupService::search
\* A string is the sequence of the code points of its chars.
MaxChars == 24
MaxTextLen == 2
MaxRows == 3
KanjiFirst == 19968
KanjiLast == 40959
Star == <<42>>
\* U+98DF and U+98F2 are kanji, U+3079 is hiragana
LookupChars == {39135, 12409}
Lemmas == {<<39135, 12409>>, <<39154>>, <<12409>>}
StoredTerms == {<<39135>>, <<39135, 12409>>}
Popularities == {0, 1}

RECURSIVE TextsOfLen(_)
TextsOfLen(n) ==
    IF n = 0 THEN {<<>>}
    ELSE {Append(s, c) : s \in TextsOfLen(n - 1), c \in LookupChars}
Texts == UNION {TextsOfLen(n) : n \in 0..MaxTextLen}

StoredRecord == [term : StoredTerms, popularity : Popularities]
Stores == UNION {[1..n -> StoredRecord] : n \in 0..MaxRows}

\* search_text.chars().take(24)
Take(chars, n) == SubSeq(chars, 1, Min(Len(chars), n))

is_kanji(c) == c >= KanjiFirst /\ c <= KanjiLast
KanjiOf(word) == {word[i] : i \in {j \in 1..Len(word) : is_kanji(word[j])}}

\* a variant that lets every candidate through
AcceptAnyCandidate(source, candidate) == TRUE

is_valid_candidate(source, candidate) ==
    IF source = candidate THEN TRUE
    ELSE IF KanjiOf(candidate) # {}
         THEN KanjiOf(candidate) \cap KanjiOf(source) # {}
         ELSE TRUE

\* generate_candidates: the substring, then the lemma of its first token when
\* the tokenizer gives one that is neither "*" nor the substring
generate_candidates(substring, lemma) ==
    <<[word |-> substring, from_lemma |-> FALSE]>>
    \o (IF lemma # Star /\ lemma # substring
        THEN <<[word |-> lemma, from_lemma |-> TRUE]>>
        ELSE <<>>)

\* the RecordEntry pushed for row number row of the store; substring_len,
\* from_lemma and row tell where in the collection it was pushed
RecordEntry(candidate, substring_len, row) ==
    [word |-> candidate.word,
     span_chars_end |-> Len(candidate.word),
     frequency |-> store[row].popularity,
     substring_len |-> substring_len,
     from_lemma |-> candidate.from_lemma,
     row |-> row]

\* the rows of SELECT json FROM terms WHERE term = ?, from row number row on
RECURSIVE QueryRows(_, _, _)
QueryRows(candidate, substring_len, row) ==
    IF row > Len(store) THEN <<>>
    ELSE (IF store[row].term = candidate.word
          THEN <<RecordEntry(candidate, substring_len, row)>>
          ELSE <<>>)
         \o QueryRows(candidate, substring_len, row + 1)

\* the body of the loop over the candidates of one substring
RECURSIVE ForCandidates(_, _, _)
ForCandidates(candidates, substring, st) ==
    IF candidates = <<>> THEN st
    ELSE LET candidate == Head(candidates)
             skipped == \/ ~is_valid_candidate(substring, candidate.word)
                        \/ candidate.word \in st.processed
             after == [processed |-> st.processed \cup {candidate.word},
                       queried |-> Append(st.queried,
                                          [source |-> substring, word |-> candidate.word]),
                       results |-> st.results
                                     \o QueryRows(candidate, Len(substring), 1)]
         IN  ForCandidates(Tail(candidates), substring, IF skipped THEN st ELSE after)

\* the comparator of results.sort_by says Less
Precedes(a, b) ==
    \/ a.span_chars_end > b.span_chars_end
    \/ a.span_chars_end = b.span_chars_end /\ a.frequency > b.frequency

\* a variant that puts entry before the entries it compares equal to
RECURSIVE InsertBeforeEquals(_, _)
InsertBeforeEquals(sorted, entry) ==
    IF sorted = <<>> THEN <<entry>>
    ELSE IF ~Precedes(Head(sorted), entry) THEN <<entry>> \o sorted
    ELSE <<Head(sorted)>> \o InsertBeforeEquals(Tail(sorted), entry)

\* entry put behind every entry of the sorted list that it does not precede
RECURSIVE InsertBehindEquals(_, _)
InsertBehindEquals(sorted, entry) ==
    IF sorted = <<>> THEN <<entry>>
    ELSE IF Precedes(entry, Head(sorted)) THEN <<entry>> \o sorted
    ELSE <<Head(sorted)>> \o InsertBehindEquals(Tail(sorted), entry)

\* slice::sort_by is a stable sort
RECURSIVE sort_by(_)
sort_by(entries) ==
    IF entries = <<>> THEN <<>>
    ELSE InsertBehindEquals(sort_by(SubSeq(entries, 1, Len(entries) - 1)),
                            entries[Len(entries)])

SearchIdle ==
    /\ search_text = <<>>
    /\ store = <<>>
    /\ len = 0
    /\ results = <<>>
    /\ processed_candidates = {}
    /\ queried = <<>>
    /\ collected = <<>>
    /\ search_pc = "off"

SearchInit ==
    /\ search_text \in Texts
    /\ store \in Stores
    /\ len = 0
    /\ results = <<>>
    /\ processed_candidates = {}
    /\ queried = <<>>
    /\ collected = <<>>
    /\ search_pc = "start"

\* start_index >= text.len() returns the empty list; else the loop starts
\* at the longest substring
SearchStart ==
    /\ search_pc = "start"
    /\ IF search_text = <<>>
       THEN search_pc' = "done" /\ UNCHANGED len
       ELSE search_pc' = "scan" /\ len' = Len(Take(search_text, MaxChars))
    /\ UNCHANGED <<search_text, store, results, processed_candidates, queried, collected,
                   notSearch>>

\* one turn of the loop over len; the tokenizer's lemma is an input
SearchSubstring ==
    /\ search_pc = "scan"
    /\ \E lemma \in Lemmas \cup {Star} :
          LET substring == SubSeq(Take(search_text, MaxChars), 1, len)
              st == ForCandidates(generate_candidates(substring, lemma), substring,
                                  [processed |-> processed_candidates,
                                   queried |-> queried,
                                   results |-> results])
          IN  /\ processed_candidates' = st.processed
              /\ queried' = st.queried
              /\ results' = st.results
    /\ len' = len - 1
    /\ search_pc' = IF len = 1 THEN "sort" ELSE "scan"
    /\ UNCHANGED <<search_text, store, collected, notSearch>>

SortResults ==
    /\ search_pc = "sort"
    /\ collected' = results
    /\ results' = sort_by(results)
    /\ search_pc' = "done"
    /\ UNCHANGED <<search_text, store, len, processed_candidates, queried, notSearch>>

SearchNext == SearchStart \/ SearchSubstring \/ SortResults

\* entry a was pushed before entry b: longer substrings first, the surface
\* candidate before the lemma, then the row order of the store
C6_CollectedBefore(a, b) ==
    \/ a.substring_len > b.substring_len
    \/ /\ a.substring_len = b.substring_len
       /\ \/ ~a.from_lemma /\ b.from_lemma
          \/ a.from_lemma = b.from_lemma /\ a.row < b.row

\* C6: the list search returns holds the collected entries ordered by
\* span_chars.end descending, then frequency descending, and entries equal
\* in both stand in the order they were collected in (longer substrings
\* first, surface candidate before lemma, store row order); the order of any
\* two entries is thus fixed by the text, the lemmas and the store.
C6_SortedAndStable ==
    search_pc = "done" =>
        /\ Len(results) = Len(collected)
        /\ {results[i] : i \in 1..Len(results)} = {collected[i] : i \in 1..Len(collected)}
        /\ \A i, j \in 1..Len(collected) : i < j => C6_CollectedBefore(collected[i], collected[j])
        /\ \A i, j \in 1..Len(results) :
              i < j =>
                 /\ ~Precedes(results[j], results[i])
                 /\ ~Precedes(results[i], results[j])
                       => C6_CollectedBefore(results[i], results[j])

C6_Witness ==
    /\ search_pc = "done"
    /\ Len(results) = 3
    /\ results # collected
    /\ \E i \in 1..2 : ~Precedes(results[i], results[i + 1])
    /\ \E i \in 1..3 : results[i].from_lemma

C7_SharesKanji(q) == KanjiOf(q.word) \cap KanjiOf(q.source) # {}

\* C7 as claimed: a candidate the term store is queried for is the source
\* substring itself or shares at least one kanji (U+4E00..U+9FFF) with it.
C7_QueriedSharesKanji ==
    \A n \in 1..Len(queried) :
        queried[n].word = queried[n].source \/ C7_SharesKanji(queried[n])

\* C7 as amended: a candidate equal to the source substring is always
\* accepted; another candidate that contains a kanji is accepted only if it
\* shares a kanji with the substring; a candidate that contains no kanji is
\* always accepted.  So a queried candidate is the substring, or has no
\* kanji, or shares a kanji with the substring.
C7_QueriedSharesKanjiOrHasNone ==
    \A n \in 1..Len(queried) :
        \/ queried[n].word = queried[n].source
        \/ KanjiOf(queried[n].word) = {}
        \/ C7_SharesKanji(queried[n])

C7_Witness ==
    /\ search_pc = "done"
    /\ \E n \in 1..Len(queried) :
          /\ queried[n].word # queried[n].source
          /\ KanjiOf(queried[n].word) = {}
          /\ KanjiOf(queried[n].source) # {}
    /\ \E n \in 1..Len(queried) :
          /\ queried[n].word # queried[n].source
          /\ C7_SharesKanji(queried[n])

\* ------------------------------------------ audio-server: ts_packet_size
\* ts_packet_size reads data.len() and the bytes at the multiples of 188 and
\* at 4 past the multiples of 192.  data is its length together with the set
\* of those positions whose byte is not the sync byte.
PacketSize188 == 188
PacketSize192 == 192
SyncOffset192 == 4
SyncByte == 71
MaxOther == 1
TsLengths == {0, 1, 187, 188, 189, 192, 196, 376, 384, 9024}
PositionsRead(length) ==
    {p \in 0..(length - 1) : p % PacketSize188 = 0 \/ p % PacketSize192 = SyncOffset192}
\* the subsets of positions that have at most n elements
RECURSIVE SubsetsUpTo(_, _)
SubsetsUpTo(positions, n) ==
    IF n = 0 THEN {{}}
    ELSE LET smaller == SubsetsUpTo(positions, n - 1)
         IN  smaller \cup {s \cup {p} : s \in smaller, p \in positions}
TsData ==
    UNION {{[length |-> length, other |-> other] :
               other \in SubsetsUpTo(PositionsRead(length), MaxOther)} :
           length \in TsLengths}

ByteAt(data, p) == IF p \in data.other THEN 0 ELSE SyncByte

\* data.chunks(size).all(|chunk| chunk.get(offset) == Some(&0x47))
AllChunksSync(data, size, offset) ==
    \A k \in 0..((data.length + size - 1) \div size - 1) :
        /\ k * size + offset < data.length
        /\ ByteAt(data, k * size + offset) = SyncByte

\* a variant that tries 192 before 188
ts_packet_size_192_first(data) ==
    IF /\ data.length >= PacketSize192
       /\ data.length % PacketSize192 = 0
       /\ AllChunksSync(data, PacketSize192, SyncOffset192)
    THEN Some(PacketSize192)
    ELSE IF /\ data.length >= PacketSize188
            /\ data.length % PacketSize188 = 0
            /\ AllChunksSync(data, PacketSize188, 0)
         THEN Some(PacketSize188)
         ELSE Nothing

ts_packet_size(data) ==
    IF /\ data.length >= PacketSize188
       /\ data.length % PacketSize188 = 0
       /\ AllChunksSync(data, PacketSize188, 0)
    THEN Some(PacketSize188)
    ELSE IF /\ data.length >= PacketSize192
            /\ data.length % PacketSize192 = 0
            /\ AllChunksSync(data, PacketSize192, SyncOffset192)
         THEN Some(PacketSize192)
         ELSE Nothing

TsIdle ==
    /\ ts_data = [length |-> 0, other |-> {}]
    /\ packet_size = Nothing
    /\ ts_pc = "off"

TsInit ==
    /\ ts_data \in TsData
    /\ packet_size = Nothing
    /\ ts_pc = "call"

\* prepare_segment_audio calls ts_packet_size(&data)
TsPacketSize ==
    /\ ts_pc = "call"
    /\ packet_size' = ts_packet_size(ts_data)
    /\ ts_pc' = "returned"
    /\ UNCHANGED <<ts_data, notTs>>

TsNext == TsPacketSize

\* the rule of the claim for packets of size bytes with the sync byte at offset
C9_Rule(size, offset) ==
    /\ ts_data.length % size = 0
    /\ \A k \in 0..(ts_data.length \div size - 1) : ByteAt(ts_data, k * size + offset) = SyncByte

C9_Expected ==
    IF C9_Rule(PacketSize188, 0) THEN Some(PacketSize188)
    ELSE IF C9_Rule(PacketSize192, SyncOffset192) THEN Some(PacketSize192)
    ELSE Nothing

\* C9 as claimed: for every length L, L = 0 included, ts_packet_size returns
\* 188 iff L % 188 = 0 and data[k*188] = 0x47 for every k, otherwise 192 iff
\* L % 192 = 0 and data[k*192 + 4] = 0x47 for every k, otherwise not-TS.
C9_DetectsByRule ==
    ts_pc = "returned" => packet_size = C9_Expected

\* C9 as amended: the rule holds for every length L >= 1; the empty input
\* (L = 0) is reported as not-TS although it meets the rule for 188.
C9_DetectsByRuleUnlessEmpty ==
    ts_pc = "returned" =>
        packet_size = IF ts_data.length = 0 THEN Nothing ELSE C9_Expected

C9_Witness ==
    /\ ts_pc = "returned"
    /\ ts_data.length % PacketSize188 = 0
    /\ ts_data.length % PacketSize192 = 0
    /\ ts_data.length > 0
    /\ ~C9_Rule(PacketSize188, 0)
    /\ packet_size = Some(PacketSize192)

\* -------------------------------------- audio-server: extract_adts_frames
\* A buffer is the sequence of its bytes; data[i] of the code is data[i + 1].
MaxChunks == 3
MinFrameLen == 7
\* buffers are built from whole ADTS frames of 7 and 8 bytes, frames whose
\* header has a layer other than 0, the sampling index 15, a length field
\* of 3 or of 16, and stray bytes
AdtsChunks ==
    {<<255, 241, 80, 0, 0, 224, 252>>,
     <<255, 241, 80, 0, 1, 0, 252, 33>>,
     <<255, 243, 80, 0, 0, 224, 252>>,
     <<255, 241, 60, 0, 0, 224, 252>>,
     <<255, 241, 80, 0, 0, 96, 252>>,
     <<255, 241, 80, 0, 2, 0, 252>>,
     <<0>>,
     <<255>>}
RECURSIVE BuffersOf(_)
BuffersOf(n) ==
    IF n = 0 THEN {<<>>}
    ELSE {b \o c : b \in BuffersOf(n - 1), c \in AdtsChunks}
AdtsBuffers == UNION {BuffersOf(n) : n \in 0..MaxChunks}

\* a variant that does not look at the sampling index
is_adts_header_any_rate(data, index) ==
    IF index + 5 >= Len(data) THEN FALSE
    ELSE IF data[index + 1] # 255 \/ data[index + 2] \div 16 # 15 THEN FALSE
    ELSE (data[index + 2] \div 2) % 4 = 0

is_adts_header(data, index) ==
    IF index + 5 >= Len(data) THEN FALSE
    ELSE IF data[index + 1] # 255 \/ data[index + 2] \div 16 # 15 THEN FALSE
    ELSE IF (data[index + 2] \div 2) % 4 # 0 THEN FALSE
    ELSE (data[index + 3] \div 4) % 16 # 15

\* ((data[index+3] & 0x03) << 11) | (data[index+4] << 3) | ((data[index+5] & 0xe0) >> 5)
adts_frame_length(data, index) ==
    (data[index + 4] % 4) * 2048 + data[index + 5] * 8 + data[index + 6] \div 32

AdtsIdle ==
    /\ adts_data = <<>>
    /\ scan_index = 0
    /\ frames = <<>>
    /\ slices = <<>>
    /\ adts_pc = "off"

AdtsInit ==
    /\ adts_data \in AdtsBuffers
    /\ scan_index = 0
    /\ frames = <<>>
    /\ slices = <<>>
    /\ adts_pc = "scan"

\* one turn of the while loop
ScanStep ==
    /\ adts_pc = "scan"
    /\ scan_index + MinFrameLen <= Len(adts_data)
    /\ LET frame_len == adts_frame_length(adts_data, scan_index)
       IN  IF ~is_adts_header(adts_data, scan_index)
           THEN /\ scan_index' = scan_index + 1
                /\ UNCHANGED <<frames, slices, adts_pc>>
           ELSE IF frame_len < MinFrameLen
           THEN /\ scan_index' = scan_index + 1
                /\ UNCHANGED <<frames, slices, adts_pc>>
           ELSE IF scan_index + frame_len <= Len(adts_data)
           THEN /\ frames' = frames \o SubSeq(adts_data, scan_index + 1, scan_index + frame_len)
                /\ slices' = Append(slices, [offset |-> scan_index, length |-> frame_len])
                /\ scan_index' = scan_index + frame_len
                /\ UNCHANGED adts_pc
           ELSE /\ adts_pc' = "done"
                /\ UNCHANGED <<scan_index, frames, slices>>
    /\ UNCHANGED <<adts_data, notAdts>>

\* the loop condition fails: frames is returned
ScanEnd ==
    /\ adts_pc = "scan"
    /\ scan_index + MinFrameLen > Len(adts_data)
    /\ adts_pc' = "done"
    /\ UNCHANGED <<adts_data, scan_index, frames, slices, notAdts>>

AdtsNext == ScanStep \/ ScanEnd

RECURSIVE C10_Concat(_)
C10_Concat(ss) ==
    IF ss = <<>> THEN <<>>
    ELSE SubSeq(adts_data, Head(ss).offset + 1, Head(ss).offset + Head(ss).length)
         \o C10_Concat(Tail(ss))

\* the bytes at offset are a 0xFFF sync word with layer 0 and a sampling
\* index other than 15, and the 13-bit length field holds length
C10_HeaderAt(offset, length) ==
    /\ offset + 6 <= Len(adts_data)
    /\ adts_data[offset + 1] = 255
    /\ adts_data[offset + 2] \div 16 = 15
    /\ (adts_data[offset + 2] \div 2) % 4 = 0
    /\ (adts_data[offset + 3] \div 4) % 16 # 15
    /\ length = (adts_data[offset + 4] % 4) * 2048 + adts_data[offset + 5] * 8
                  + adts_data[offset + 6] \div 32

C10_Slices ==
    /\ frames = C10_Concat(slices)
    /\ Len(frames) <= Len(adts_data)
    /\ \A k \in 1..Len(slices) :
          /\ slices[k].length >= MinFrameLen
          /\ slices[k].offset + slices[k].length <= Len(adts_data)
          /\ C10_HeaderAt(slices[k].offset, slices[k].length)
    /\ \A k \in 1..(Len(slices) - 1) :
          slices[k].offset + slices[k].length <= slices[k + 1].offset

\* C10: frames is always the concatenation of slices of the input that do
\* not overlap and follow each other in increasing offset order, so that it
\* is never longer than the input; every slice starts at a 0xFFF sync word
\* with layer 0 and a sampling index other than 15 and is as long as its
\* 13-bit frame_length field says, which is at least 7; and the scan ends.
C10_FramesAreSlicesAndScanEnds ==
    [](C10_Slices) /\ <>(adts_pc = "done")

C10_Witness ==
    /\ adts_pc = "done"
    /\ Len(slices) = 2
    /\ slices[1].offset + slices[1].length < slices[2].offset
    /\ slices[1].length # slices[2].length
    /\ Len(frames) < Len(adts_data)

\* ---------------------------------------- audio-server: parse_pes_header
\* payload[i] of the code is payload[i + 1] here.  A u64 is kept as two
\* limbs, value = hi * LimbBase + lo with lo < LimbBase, so that the 33 bits
\* of a PTS are computed without loss.
LimbBase == 1073741824
LimbBits == 30
U64(hi, lo) == [hi |-> hi, lo |-> lo]

RECURSIVE Pow2(_)
Pow2(n) == IF n = 0 THEN 1 ELSE 2 * Pow2(n - 1)

RECURSIVE BitAnd(_, _)
BitAnd(a, b) ==
    IF a = 0 \/ b = 0 THEN 0
    ELSE (IF a % 2 = 1 /\ b % 2 = 1 THEN 1 ELSE 0) + 2 * BitAnd(a \div 2, b \div 2)

RECURSIVE BitOr(_, _)
BitOr(a, b) ==
    IF a = 0 THEN b
    ELSE IF b = 0 THEN a
    ELSE (IF a % 2 = 1 \/ b % 2 = 1 THEN 1 ELSE 0) + 2 * BitOr(a \div 2, b \div 2)

\* (byte as u64) << n, for n <= LimbBits
ShiftLeft(byte, n) ==
    U64(byte \div Pow2(LimbBits - n), (byte % Pow2(LimbBits - n)) * Pow2(n))
ShiftRight(byte, n) == U64(0, byte \div Pow2(n))
Or64(x, y) == U64(BitOr(x.hi, y.hi), BitOr(x.lo, y.lo))

\* a variant that does not test the marker bit of b2
pes_pts_unmarked_b2(b0, b1, b2, b3, b4) ==
    IF BitAnd(b0, 1) = 0 \/ BitAnd(b4, 1) = 0
    THEN Nothing
    ELSE Some(Or64(Or64(Or64(Or64(ShiftLeft(BitAnd(b0, 14), 29), ShiftLeft(b1, 22)),
                             ShiftLeft(BitAnd(b2, 254), 14)),
                        ShiftLeft(b3, 7)),
                   ShiftRight(BitAnd(b4, 254), 1)))

\* the PTS of the five bytes at pts_offset
pes_pts(b0, b1, b2, b3, b4) ==
    IF BitAnd(b0, 1) = 0 \/ BitAnd(b2, 1) = 0 \/ BitAnd(b4, 1) = 0
    THEN Nothing
    ELSE Some(Or64(Or64(Or64(Or64(ShiftLeft(BitAnd(b0, 14), 29), ShiftLeft(b1, 22)),
                             ShiftLeft(BitAnd(b2, 254), 14)),
                        ShiftLeft(b3, 7)),
                   ShiftRight(BitAnd(b4, 254), 1)))

\* a variant that takes any three bytes for the start code
parse_pes_header_any_start(payload) ==
    IF Len(payload) < 9 THEN Nothing
    ELSE LET flags == payload[8]
             pts_dts == BitAnd(flags \div 64, 3)
             header_len == payload[9]
             data_start == 9 + header_len
             pts == IF pts_dts # 0
                    THEN IF 9 + 5 > Len(payload) THEN Nothing
                         ELSE pes_pts(payload[10], payload[11], payload[12],
                                      payload[13], payload[14])
                    ELSE Nothing
         IN  IF Len(payload) < data_start THEN Nothing
             ELSE Some([pts |-> pts, data_start |-> data_start])

parse_pes_header(payload) ==
    IF Len(payload) < 9 THEN Nothing
    ELSE IF payload[1] # 0 \/ payload[2] # 0 \/ payload[3] # 1 THEN Nothing
    ELSE LET flags == payload[8]
             pts_dts == BitAnd(flags \div 64, 3)
             header_len == payload[9]
             data_start == 9 + header_len
             pts == IF pts_dts # 0
                    THEN IF 9 + 5 > Len(payload) THEN Nothing
                         ELSE pes_pts(payload[10], payload[11], payload[12],
                                      payload[13], payload[14])
                    ELSE Nothing
         IN  IF Len(payload) < data_start THEN Nothing
             ELSE Some([pts |-> pts, data_start |-> data_start])

\* PES packets: a start code, stream id 0xC0, a packet length, the flag
\* bytes, header_data_length, five PTS bytes and three bytes of data, cut
\* off after some length
PesStartCodes == {<<0, 0, 1>>, <<0, 0, 2>>}
PesFlags == {0, 64, 128, 192}
PesHeaderLens == {0, 5, 8}
PesB0 == {33, 47, 46, 63}
PesB1 == {0, 255}
PesB2 == {1, 255, 254}
PesB3 == {0, 255}
PesB4 == {1, 255, 254}
PesCuts == {8, 9, 13, 14, 17}
PesPayloads ==
    {SubSeq(code \o <<192, 0, 0, 128, flags, header_len, b0, b1, b2, b3, b4, 255, 241, 80>>,
            1, cut) :
        code \in PesStartCodes, flags \in PesFlags, header_len \in PesHeaderLens,
        b0 \in PesB0, b1 \in PesB1, b2 \in PesB2, b3 \in PesB3, b4 \in PesB4,
        cut \in PesCuts}

PesIdle ==
    /\ pes_payload = <<>>
    /\ pes_header = Nothing
    /\ pes_pc = "off"

PesInit ==
    /\ pes_payload \in PesPayloads
    /\ pes_header = Nothing
    /\ pes_pc = "call"

\* extract_adts_from_ts calls parse_pes_header on a payload that starts a unit
ParsePesHeader ==
    /\ pes_pc = "call"
    /\ pes_header' = parse_pes_header(pes_payload)
    /\ pes_pc' = "returned"
    /\ UNCHANGED <<pes_payload, notPes>>

PesNext == ParsePesHeader

\* the header was parsed and holds a five-byte PTS field announced by its flags
C11_HasPtsField ==
    /\ pes_pc = "returned"
    /\ IsSome(pes_header)
    /\ Len(pes_payload) >= 14
    /\ pes_payload[8] \div 64 # 0

\* C11: for a PES header with pts_dts_flags # 0 and PTS bytes b0..b4, the
\* PTS is the 33-bit number made of bits 3..1 of b0, the 8 bits of b1, bits
\* 7..1 of b2, the 8 bits of b3 and bits 7..1 of b4, which is below 2^33,
\* when bit 0 of b0, b2 and b4 are all 1; there is no PTS when one of these
\* marker bits is 0.
C11_PtsDecoded ==
    C11_HasPtsField =>
        LET b0 == pes_payload[10]
            b1 == pes_payload[11]
            b2 == pes_payload[12]
            b3 == pes_payload[13]
            b4 == pes_payload[14]
            pts == Unwrap(pes_header).pts
        IN  IF b0 % 2 = 1 /\ b2 % 2 = 1 /\ b4 % 2 = 1
            THEN /\ IsSome(pts)
                 /\ Unwrap(pts).hi = (b0 \div 2) % 8
                 /\ Unwrap(pts).lo = b1 * 4194304 + (b2 \div 2) * 32768 + b3 * 128 + b4 \div 2
                 /\ Unwrap(pts).hi < 8
                 /\ Unwrap(pts).lo < LimbBase
            ELSE pts = Nothing

C11_Witness ==
    /\ C11_HasPtsField
    /\ IsSome(Unwrap(pes_header).pts)
    /\ Unwrap(Unwrap(pes_header).pts).hi = 7
    /\ Unwrap(Unwrap(pes_header).pts).lo = LimbBase - 1

\* ------------------------------------------ audio-server: encode_wav_i16
\* The samples are their count: the claim is about the header and the
\* length of the output.  usize is 64 bits wide.
Small(n) == U64(0, n)
Add64(x, y) ==
    U64(x.hi + y.hi + (x.lo + y.lo) \div LimbBase, (x.lo + y.lo) % LimbBase)
Gt64(x, y) == x.hi > y.hi \/ (x.hi = y.hi /\ x.lo > y.lo)
\* x as u32: the low 32 bits
AsU32(x) == U64(x.hi % 4, x.lo)
U32_MAX == U64(3, LimbBase - 1)

\* u32::to_le_bytes and u16::to_le_bytes
LeBytes32(x) ==
    <<x.lo % 256, (x.lo \div 256) % 256, (x.lo \div 65536) % 256,
      x.lo \div 16777216 + x.hi * 64>>
LeBytes16(n) == <<n % 256, n \div 256>>

WavSampleCounts ==
    {Small(0), Small(1), Small(2), Small(1000),
     U64(1, 0), U64(1, LimbBase - 19), U64(1, LimbBase - 18), U64(1, LimbBase - 17),
     U64(1, LimbBase - 1), U64(2, 0), U64(2, 1), U64(3, 5)}
WavRates == {8000, 44100, 48000}
WavChannels == {1, 2}

WavIdle ==
    /\ sample_count = Small(0)
    /\ wav_rate = 0
    /\ wav_channels = 0
    /\ wav_status = "off"
    /\ wav_header = <<>>
    /\ wav_len = Small(0)

WavInit ==
    /\ sample_count \in WavSampleCounts
    /\ wav_rate \in WavRates
    /\ wav_channels \in WavChannels
    /\ wav_status = "call"
    /\ wav_header = <<>>
    /\ wav_len = Small(0)

\* 36u32 + data_len as u32 overflows when the sum reaches 2^32: the build
\* with overflow checks panics, the build without them wraps
EncodeWav ==
    /\ wav_status = "call"
    /\ LET data_len == Add64(sample_count, sample_count)
           sum == Add64(Small(36), AsU32(data_len))
           riff_size == AsU32(sum)
           byte_rate == wav_rate * wav_channels * 2
           block_align == wav_channels * 2
       IN  IF Gt64(data_len, U32_MAX)
           THEN /\ wav_status' = "too_large"
                /\ UNCHANGED <<wav_header, wav_len>>
           ELSE \E overflow_checks \in BOOLEAN :
                   IF overflow_checks /\ Gt64(sum, U32_MAX)
                   THEN /\ wav_status' = "panic"
                        /\ UNCHANGED <<wav_header, wav_len>>
                   ELSE /\ wav_status' = "ok"
                        /\ wav_header' =
                              <<82, 73, 70, 70>> \o LeBytes32(riff_size)
                              \o <<87, 65, 86, 69>> \o <<102, 109, 116, 32>>
                              \o LeBytes32(Small(16)) \o LeBytes16(1)
                              \o LeBytes16(wav_channels) \o LeBytes32(Small(wav_rate))
                              \o LeBytes32(Small(byte_rate)) \o LeBytes16(block_align)
                              \o LeBytes16(16) \o <<100, 97, 116, 97>>
                              \o LeBytes32(AsU32(data_len))
                        /\ wav_len' = Add64(Small(44), data_len)
    /\ UNCHANGED <<sample_count, wav_rate, wav_channels, notWav>>

WavNext == EncodeWav

\* the number that four little-endian bytes of the header spell, from byte at
C12_Field32(at) ==
    U64(wav_header[at + 4] \div 64,
        wav_header[at + 1] + wav_header[at + 2] * 256 + wav_header[at + 3] * 65536
          + (wav_header[at + 4] % 64) * 16777216)

\* C12: when data_len = 2 * sample count is at most 2^32 - 1 the output has
\* 44 + data_len bytes, "RIFF" at 0..4, "WAVE" at 8..12, "data" at 36..40
\* and a RIFF size field that equals 36 + data_len (no wrap-around); when
\* data_len is above 2^32 - 1 the call fails as too large.
C12_WavHeader ==
    wav_status # "off" /\ wav_status # "call" =>
        LET data_len == Add64(sample_count, sample_count)
        IN  IF Gt64(data_len, U32_MAX)
            THEN wav_status = "too_large"
            ELSE /\ wav_status = "ok"
                 /\ wav_len = Add64(Small(44), data_len)
                 /\ Len(wav_header) = 44
                 /\ SubSeq(wav_header, 1, 4) = <<82, 73, 70, 70>>
                 /\ SubSeq(wav_header, 9, 12) = <<87, 65, 86, 69>>
                 /\ SubSeq(wav_header, 37, 40) = <<100, 97, 116, 97>>
                 /\ C12_Field32(4) = Add64(Small(36), data_len)

\* ------------------------------------- audio-server: select_master_variant
\* A uri is the pair of the list it stands in and its place there, so that
\* every entry has a uri of its own.  resolve_url is taken to succeed.
MaxEntries == 2
MediaTypes == {"Audio", "Video"}
StreamKinds == {"ExtXStreamInf", "ExtXIFrame"}
Bandwidths == {1, 2}

ExtXMedia(n) ==
    {[media_type |-> t, is_default |-> d, uri |-> IF u THEN Some(<<"media", n>>) ELSE Nothing] :
        t \in MediaTypes, d \in BOOLEAN, u \in BOOLEAN}
VariantStream(n) ==
    {[kind |-> k, uri |-> <<"stream", n>>, bandwidth |-> b] :
        k \in StreamKinds, b \in Bandwidths}
RECURSIVE ListsOf(_, _)
ListsOf(Entry(_), n) ==
    IF n = 0 THEN {<<>>}
    ELSE {Append(l, e) : l \in ListsOf(Entry, n - 1), e \in Entry(n)}
MasterPlaylists ==
    [media : UNION {ListsOf(ExtXMedia, n) : n \in 0..MaxEntries},
     variant_streams : UNION {ListsOf(VariantStream, n) : n \in 0..MaxEntries}]

\* iter().find(p): the first entry of list that satisfies p, if any
Find(list, p(_)) ==
    IF \E n \in 1..Len(list) : p(list[n])
    THEN Some(list[CHOOSE n \in 1..Len(list) :
                      p(list[n]) /\ \A k \in 1..(n - 1) : ~p(list[k])])
    ELSE Nothing

DefaultAudio(media) == media.media_type = "Audio" /\ media.is_default /\ IsSome(media.uri)
AnyAudio(media) == media.media_type = "Audio" /\ IsSome(media.uri)

\* a variant that also takes a stream of equal bandwidth
ReplacesBestOnTie(best, bandwidth) == best = Nothing \/ bandwidth <= Unwrap(best).bandwidth

\* best.map_or(true, |(_, best_bw)| bandwidth < best_bw)
ReplacesBest(best, bandwidth) == best = Nothing \/ bandwidth < Unwrap(best).bandwidth

\* the loop over master.variant_streams, from entry n on
RECURSIVE BestStream(_, _, _)
BestStream(streams, n, best) ==
    IF n > Len(streams) THEN best
    ELSE BestStream(streams, n + 1,
                    IF streams[n].kind = "ExtXStreamInf"
                       /\ ReplacesBest(best, streams[n].bandwidth)
                    THEN Some([uri |-> streams[n].uri, bandwidth |-> streams[n].bandwidth])
                    ELSE best)

MasterIdle ==
    /\ master = [media |-> <<>>, variant_streams |-> <<>>]
    /\ variant_url = Nothing
    /\ master_error = None
    /\ master_pc = "off"

MasterInit ==
    /\ master \in MasterPlaylists
    /\ variant_url = Nothing
    /\ master_error = None
    /\ master_pc = "call"

SelectMasterVariant ==
    /\ master_pc = "call"
    /\ LET default_audio == Find(master.media, DefaultAudio)
           any_audio == Find(master.media, AnyAudio)
           best == BestStream(master.variant_streams, 1, Nothing)
       IN  IF IsSome(default_audio)
           THEN variant_url' = Unwrap(default_audio).uri /\ UNCHANGED master_error
           ELSE IF IsSome(any_audio)
           THEN variant_url' = Unwrap(any_audio).uri /\ UNCHANGED master_error
           ELSE IF IsSome(best)
           THEN variant_url' = Some(Unwrap(best).uri) /\ UNCHANGED master_error
           ELSE /\ master_error' = "No media playlists found in master playlist"
                /\ UNCHANGED variant_url
    /\ master_pc' = "returned"
    /\ UNCHANGED <<master, notMaster>>

MasterNext == SelectMasterVariant

\* the places of the audio renditions with a uri, of those that are default,
\* and of the variant streams (EXT-X-STREAM-INF entries)
C14_Audio == {n \in 1..Len(master.media) :
                 master.media[n].media_type = "Audio" /\ master.media[n].uri # Nothing}
C14_Default == {n \in C14_Audio : master.media[n].is_default}
C14_Streams == {n \in 1..Len(master.variant_streams) :
                   master.variant_streams[n].kind = "ExtXStreamInf"}
C14_First(places) == CHOOSE n \in places : \A k \in places : n <= k
C14_Lowest ==
    CHOOSE n \in C14_Streams :
        \A k \in C14_Streams :
            \/ master.variant_streams[n].bandwidth < master.variant_streams[k].bandwidth
            \/ /\ master.variant_streams[n].bandwidth = master.variant_streams[k].bandwidth
               /\ n <= k

\* C14: the first default audio rendition with a uri is returned; else the
\* first audio rendition with a uri; else the variant stream of lowest
\* bandwidth, the earliest one on ties; the call fails for want of a
\* playlist only when none of the three exists.
C14_VariantChosen ==
    master_pc = "returned" =>
        IF C14_Default # {}
        THEN variant_url = Some(<<"media", C14_First(C14_Default)>>) /\ master_error = None
        ELSE IF C14_Audio # {}
        THEN variant_url = Some(<<"media", C14_First(C14_Audio)>>) /\ master_error = None
        ELSE IF C14_Streams # {}
        THEN variant_url = Some(<<"stream", C14_Lowest>>) /\ master_error = None
        ELSE variant_url = Nothing /\ master_error # None

\* a default audio rendition that stands second wins over a first audio
\* rendition and over the variant streams
C14_Witness ==
    /\ master_pc = "returned"
    /\ C14_Default = {2}
    /\ C14_Audio = {1, 2}
    /\ C14_Streams # {}
    /\ variant_url = Some(<<"media", 2>>)

\* ----------------- audio-server: extract_adts_from_ts and what follows it
\* The second pass over the packets, once the audio PID is known.  A packet
\* is what the pass reads of it: whether it is on the audio PID, whether it
\* carries a payload (adaptation 1 or 3 and payload_start inside the
\* packet), its payload_unit_start_indicator, and the bytes of its payload.
MaxPackets == 3
PtsClock == 90000
\* the payloads tried.  A PES packet that starts with a header of five PTS
\* bytes (PTS 180000, two seconds) and two bytes of data; one with no PTS and
\* three bytes of data; one whose header ends where the payload ends; one
\* with a wrong start code; one too short for a header; and a payload that
\* continues a PES packet.
PesWithPts == <<0, 0, 1, 192, 0, 0, 128, 128, 5, 33, 0, 11, 126, 65, 255, 241>>
PesNoPts == <<0, 0, 1, 192, 0, 0, 128, 0, 0, 255, 241, 80>>
PesHeaderOnly == <<0, 0, 1, 192, 0, 0, 128, 0, 1, 7>>
PesBadStart == <<0, 0, 2, 192, 0, 0, 128, 0, 0, 255>>
PesShort == <<0, 0, 1, 192>>
Continuation == <<255, 241, 80, 128>>
StartPayloads == {PesWithPts, PesNoPts, PesHeaderOnly, PesBadStart, PesShort}
TsPackets ==
    {[audio |-> FALSE, payload |-> TRUE, pusi |-> TRUE, bytes |-> PesNoPts],
     [audio |-> TRUE, payload |-> FALSE, pusi |-> TRUE, bytes |-> <<>>],
     [audio |-> TRUE, payload |-> TRUE, pusi |-> FALSE, bytes |-> Continuation]}
    \cup {[audio |-> TRUE, payload |-> TRUE, pusi |-> TRUE, bytes |-> b] : b \in StartPayloads}

PesPayload(pts, data) == [pts |-> pts, data |-> data]

\* a variant that takes the first PTS whatever force_segment_start says
first_pts_despite_force(payloads, force) ==
    IF \E n \in 1..Len(payloads) : IsSome(payloads[n].pts)
    THEN payloads[CHOOSE n \in 1..Len(payloads) :
                     /\ IsSome(payloads[n].pts)
                     /\ \A k \in 1..(n - 1) : payloads[k].pts = Nothing].pts
    ELSE Nothing

\* the loop over pes_payloads that sets first_pts
first_pts_of(payloads, force) ==
    IF ~force /\ \E n \in 1..Len(payloads) : IsSome(payloads[n].pts)
    THEN payloads[CHOOSE n \in 1..Len(payloads) :
                     /\ IsSome(payloads[n].pts)
                     /\ \A k \in 1..(n - 1) : payloads[k].pts = Nothing].pts
    ELSE Nothing

\* payloads: the data of the PES packets, one after the other
RECURSIVE concat_data(_)
concat_data(payloads) ==
    IF payloads = <<>> THEN <<>> ELSE Head(payloads).data \o concat_data(Tail(payloads))

\* pts as f64 / 90_000.0, for a pts that is a whole number of seconds
pts_seconds(pts) ==
    IF IsSome(pts)
    THEN Some(Unwrap(pts).hi * (LimbBase \div PtsClock)
                + (Unwrap(pts).hi * (LimbBase % PtsClock) + Unwrap(pts).lo) \div PtsClock)
    ELSE Nothing

DemuxIdle ==
    /\ ts_packets = <<>>
    /\ current_pes = Nothing
    /\ pes_payloads = <<>>
    /\ force_segment_start = FALSE
    /\ extraction = Nothing
    /\ prepared = Nothing
    /\ demux_pc = "off"

DemuxInit ==
    /\ ts_packets = <<>>
    /\ current_pes = Nothing
    /\ pes_payloads = <<>>
    /\ force_segment_start = FALSE
    /\ extraction = Nothing
    /\ prepared = Nothing
    /\ demux_pc = "packets"

\* one turn of the second loop over data.chunks(packet_size)
DemuxPacket ==
    /\ demux_pc = "packets"
    /\ Len(ts_packets) < MaxPackets
    /\ \E packet \in TsPackets :
          LET header == parse_pes_header(packet.bytes)
              data_start == Unwrap(header).data_start
          IN  /\ ts_packets' = Append(ts_packets, packet)
              /\ IF ~packet.payload \/ ~packet.audio
                 THEN UNCHANGED <<current_pes, pes_payloads, force_segment_start>>
                 ELSE IF packet.pusi
                 THEN /\ pes_payloads' = pes_payloads
                                           \o (IF IsSome(current_pes) THEN current_pes ELSE <<>>)
                      /\ current_pes' =
                            IF IsSome(header)
                            THEN Some(PesPayload(Unwrap(header).pts,
                                                 IF data_start < Len(packet.bytes)
                                                 THEN SubSeq(packet.bytes, data_start + 1,
                                                             Len(packet.bytes))
                                                 ELSE <<>>))
                            ELSE Some(PesPayload(Nothing, packet.bytes))
                      /\ UNCHANGED force_segment_start
                 ELSE IF IsSome(current_pes)
                 THEN /\ current_pes' =
                            Some(PesPayload(Unwrap(current_pes).pts,
                                            Unwrap(current_pes).data \o packet.bytes))
                      /\ UNCHANGED <<pes_payloads, force_segment_start>>
                 ELSE /\ force_segment_start' = TRUE
                      /\ current_pes' = Some(PesPayload(Nothing, packet.bytes))
                      /\ UNCHANGED pes_payloads
    /\ UNCHANGED <<extraction, prepared, demux_pc, notDemux>>

\* the end of the data: the last PES is pushed, first_pts is taken, and the
\* ADTS frames are extracted (whether any is found depends on the bytes)
DemuxEnd ==
    /\ demux_pc = "packets"
    /\ LET all == pes_payloads \o (IF IsSome(current_pes) THEN current_pes ELSE <<>>)
       IN  /\ pes_payloads' = all
           /\ \E frames_found \in BOOLEAN :
                 extraction' = Some([payloads |-> concat_data(all),
                                     data_is_empty |-> ~frames_found,
                                     first_pts |-> pts_seconds(first_pts_of(all, force_segment_start)),
                                     force_segment_start |-> force_segment_start])
    /\ current_pes' = Nothing
    /\ demux_pc' = "extracted"
    /\ UNCHANGED <<ts_packets, force_segment_start, prepared, notDemux>>

\* prepare_segment_audio, and base_time as build_audio_clip takes it
PrepareSegmentAudio ==
    /\ demux_pc = "extracted"
    /\ LET e == Unwrap(extraction)
           first_pts == IF e.data_is_empty \/ e.force_segment_start THEN Nothing ELSE e.first_pts
           force == IF e.data_is_empty THEN FALSE ELSE e.force_segment_start
       IN  prepared' = Some([first_pts |-> first_pts,
                             force_segment_start |-> force,
                             base_time |-> IF force THEN Nothing ELSE first_pts])
    /\ demux_pc' = "prepared"
    /\ UNCHANGED <<ts_packets, current_pes, pes_payloads, force_segment_start, extraction,
                   notDemux>>

DemuxNext == DemuxPacket \/ DemuxEnd \/ PrepareSegmentAudio

\* the packet a turn of the loop has read, and what the turn commits
C23_Packet == ts_packets'[Len(ts_packets')]
C23_Committed == IF IsSome(current_pes) THEN pes_payloads \o current_pes ELSE pes_payloads
C23_StartCode(bytes) == Len(bytes) >= 3 /\ SubSeq(bytes, 1, 3) = <<0, 0, 1>>
C23_ValidHeader(bytes) == C23_StartCode(bytes) /\ Len(bytes) >= 9 /\ 9 + bytes[9] <= Len(bytes)
C23_AfterHeader(bytes) == SubSeq(bytes, 9 + bytes[9] + 1, Len(bytes))
C23_OnAudio(step) ==
    (/\ Len(ts_packets') = Len(ts_packets) + 1
     /\ C23_Packet.audio
     /\ C23_Packet.payload) => step
C23_NonStart ==
    ~C23_Packet.pusi =>
        /\ pes_payloads' = pes_payloads
        /\ IF IsSome(current_pes)
           THEN /\ current_pes' = Some([Unwrap(current_pes) EXCEPT !.data = @ \o C23_Packet.bytes])
                /\ force_segment_start' = force_segment_start
           ELSE /\ current_pes' = Some([pts |-> Nothing, data |-> C23_Packet.bytes])
                /\ force_segment_start'

\* the bytes the loop keeps of packet n, and of all packets up to n
C23_Kept(n) ==
    IF ~ts_packets[n].audio \/ ~ts_packets[n].payload THEN <<>>
    ELSE IF ts_packets[n].pusi /\ C23_ValidHeader(ts_packets[n].bytes)
    THEN C23_AfterHeader(ts_packets[n].bytes)
    ELSE ts_packets[n].bytes
RECURSIVE C23_KeptUpTo(_)
C23_KeptUpTo(n) == IF n = 0 THEN <<>> ELSE C23_KeptUpTo(n - 1) \o C23_Kept(n)
C23_InPacketOrder ==
    (IsSome(extraction) /\ IsSome(extraction')) =>
        Unwrap(extraction').payloads = C23_KeptUpTo(Len(ts_packets))

\* C23 as claimed: a start packet commits the PES in progress and opens a
\* new one only when its payload has the start code 00 00 01, with the bytes
\* from 9 + header_data_length on; a packet that is no start appends to the
\* PES in progress, or opens one with no PTS and sets force_segment_start.
C23_OpensOnlyOnValidHeader ==
    [][C23_OnAudio(/\ C23_NonStart
                   /\ C23_Packet.pusi =>
                         /\ pes_payloads' = C23_Committed
                         /\ IF C23_StartCode(C23_Packet.bytes)
                            THEN /\ IsSome(current_pes')
                                 /\ Len(C23_Packet.bytes) >= 9 =>
                                       Unwrap(current_pes').data = C23_AfterHeader(C23_Packet.bytes)
                            ELSE current_pes' = Nothing)]_vars

\* C23, amended: a start packet commits the PES in progress and always opens
\* a new one: when its payload has nine bytes or more, the start code
\* 00 00 01 and room for its header, with the bytes from
\* 9 + header_data_length on, otherwise with the whole payload and no PTS; a
\* packet that is no start appends to the PES in progress, or opens one with
\* no PTS and sets force_segment_start; the data of the committed PES
\* packets are concatenated in packet order.
C23_ReassemblyTransitions ==
    [][/\ C23_OnAudio(/\ C23_NonStart
                      /\ C23_Packet.pusi =>
                            /\ pes_payloads' = C23_Committed
                            /\ force_segment_start' = force_segment_start
                            /\ IsSome(current_pes')
                            /\ Unwrap(current_pes').data =
                                  IF C23_ValidHeader(C23_Packet.bytes)
                                  THEN C23_AfterHeader(C23_Packet.bytes)
                                  ELSE C23_Packet.bytes
                            /\ ~C23_ValidHeader(C23_Packet.bytes) =>
                                  Unwrap(current_pes').pts = Nothing)
       /\ C23_InPacketOrder]_vars

C23_Witness ==
    /\ IsSome(extraction)
    /\ Len(ts_packets) = 3
    /\ ts_packets[1].bytes = PesBadStart /\ ts_packets[1].audio /\ ts_packets[1].payload
    /\ ts_packets[2].bytes = Continuation
    /\ ts_packets[3].bytes = PesWithPts /\ ts_packets[3].audio
    /\ Len(pes_payloads) = 2
    /\ pes_payloads[1].data = PesBadStart \o Continuation
    /\ pes_payloads[2].data = <<255, 241>>

\* the places of the packets on the audio PID that carry a payload
C16_AudioPayloads == {n \in 1..Len(ts_packets) : ts_packets[n].audio /\ ts_packets[n].payload}
C16_FirstAudio == CHOOSE n \in C16_AudioPayloads : \A k \in C16_AudioPayloads : n <= k
C16_StartsMidPes == C16_AudioPayloads # {} /\ ~ts_packets[C16_FirstAudio].pusi

\* C16: force_segment_start is true exactly when the first packet with a
\* payload on the audio PID has no payload-unit-start indicator; then the
\* bytes of that payload are kept, the extraction has no first_pts, and
\* the segment is decoded with no base_time, that is from segment.start_time.
C16_ForcedSegmentStart ==
    /\ force_segment_start = C16_StartsMidPes
    /\ (IsSome(extraction) /\ C16_StartsMidPes) =>
          /\ Unwrap(extraction).force_segment_start
          /\ Unwrap(extraction).first_pts = Nothing
          /\ pes_payloads # <<>>
          /\ SubSeq(pes_payloads[1].data, 1, Len(Continuation)) = ts_packets[C16_FirstAudio].bytes
    /\ (IsSome(prepared) /\ C16_StartsMidPes) => Unwrap(prepared).base_time = Nothing

C16_Witness ==
    /\ demux_pc = "prepared"
    /\ C16_StartsMidPes
    /\ Len(pes_payloads) = 2
    /\ IsSome(pes_payloads[2].pts)
    /\ Unwrap(prepared).force_segment_start
    /\ Unwrap(prepared).base_time = Nothing

\* ------------------- yomitan-server: manage_dictionaries_handler
\* The tables AppState::new creates, with their columns.  No other
\* statement of the program creates or alters a table.
Schema == [terms |-> {"term", "json"}, metadata |-> {"key", "value"}]

\* a statement naming table and columns prepares only against the schema
Prepares(table, columns) ==
    /\ table \in DOMAIN Schema
    /\ columns \subseteq Schema[table]

MaxAdminId == 2
AdminIds == 1..MaxAdminId
Headwords == {"a", "b"}

\* the serialised StoredRecord of a term row: dictionary_id is a field of
\* the json text, not a column
stored_json(id) == [dictionary_id |-> id]
TermRow(term, id) == [term |-> term, json |-> stored_json(id)]

Toggle(id, enabled) == [action |-> "Toggle", id |-> id, enabled |-> enabled]
Delete(id) == [action |-> "Delete", id |-> id]
Reorder(order) == [action |-> "Reorder", order |-> order]
Orders == {<<>>} \cup {<<i>> : i \in AdminIds}
              \cup {o \in AdminIds \X AdminIds : o[1] # o[2]}

AdminIdle ==
    /\ admin_dicts = [i \in AdminIds |-> Nothing]
    /\ next_id = 1
    /\ db = [t \in DOMAIN Schema |-> {}]
    /\ vacuumed = FALSE
    /\ admin_action = Nothing
    /\ admin_status = "none"
    /\ admin_before = Nothing

\* AppState::new
AdminInit == AdminIdle

\* import_zip, run to its end: the dictionary enters the map under the
\* next id; its term rows appear with the commit, or not at all
AdminImportZip ==
    /\ next_id <= MaxAdminId
    /\ admin_dicts' = [admin_dicts EXCEPT ![next_id] = Some([enabled |-> TRUE, priority |-> 0])]
    /\ next_id' = next_id + 1
    /\ \E committed \in SUBSET Headwords :
          db' = [db EXCEPT !.terms = @ \cup {TermRow(t, next_id) : t \in committed}]
    /\ admin_action' = Nothing
    /\ admin_status' = "none"
    /\ admin_before' = Nothing
    /\ UNCHANGED <<vacuumed, notAdmin>>

\* what every action leaves behind
Respond(action, ok) ==
    /\ admin_action' = Some(action)
    /\ admin_status' = IF ok THEN "ok" ELSE "error"
    /\ admin_before' = Some([dicts |-> admin_dicts, db |-> db])

\* DictionaryAction::Toggle.  conn_ok: pool.get() and conn.transaction()
ManageToggle ==
    \E id \in AdminIds, enabled \in BOOLEAN, conn_ok \in BOOLEAN, commit_ok \in BOOLEAN :
       LET updated == conn_ok /\ Prepares("dictionaries", {"enabled", "id"})
       IN  /\ admin_dicts' = IF updated /\ IsSome(admin_dicts[id])
                       THEN [admin_dicts EXCEPT ![id] = Some([Unwrap(@) EXCEPT !.enabled = enabled])]
                       ELSE admin_dicts
           /\ db' = IF updated /\ commit_ok
                    THEN [db EXCEPT !.dictionaries =
                            {IF r.id = id THEN [r EXCEPT !.enabled = enabled] ELSE r : r \in @}]
                    ELSE db
           /\ Respond(Toggle(id, enabled), updated /\ commit_ok)
           /\ UNCHANGED <<next_id, vacuumed, notAdmin>>

\* DictionaryAction::Delete, and the VACUUM after the commit
ManageDelete ==
    \E id \in AdminIds, conn_ok \in BOOLEAN, commit_ok \in BOOLEAN, vacuum_ok \in BOOLEAN :
       LET deleted == /\ conn_ok
                      /\ Prepares("terms", {"dictionary_id"})
                      /\ Prepares("dictionaries", {"id"})
       IN  /\ admin_dicts' = IF deleted THEN [admin_dicts EXCEPT ![id] = Nothing] ELSE admin_dicts
           /\ db' = IF deleted /\ commit_ok
                    THEN [db EXCEPT !.terms = {r \in @ : r.dictionary_id # id},
                                    !.dictionaries = {r \in @ : r.id # id}]
                    ELSE db
           /\ vacuumed' = IF deleted /\ commit_ok /\ vacuum_ok THEN TRUE ELSE vacuumed
           /\ Respond(Delete(id), deleted /\ commit_ok /\ vacuum_ok)
           /\ UNCHANGED <<next_id, notAdmin>>

\* DictionaryAction::Reorder: the statements for order[1..executed] succeed
ManageReorder ==
    \E order \in Orders, conn_ok \in BOOLEAN, commit_ok \in BOOLEAN :
       LET prepared_stmt == conn_ok /\ Prepares("dictionaries", {"priority", "id"})
       IN  \E executed \in 0..Len(order) :
              LET touched == IF prepared_stmt THEN 1..executed ELSE {}
                  index_of(id) == CHOOSE n \in touched : order[n] = id
                  all == prepared_stmt /\ executed = Len(order)
              IN  /\ admin_dicts' = [id \in AdminIds |->
                                 IF IsSome(admin_dicts[id]) /\ \E n \in touched : order[n] = id
                                 THEN Some([Unwrap(admin_dicts[id]) EXCEPT !.priority = index_of(id) - 1])
                                 ELSE admin_dicts[id]]
                  /\ db' = IF all /\ commit_ok
                           THEN [db EXCEPT !.dictionaries =
                                   {IF \E n \in touched : order[n] = r.id
                                    THEN [r EXCEPT !.priority = index_of(r.id) - 1]
                                    ELSE r : r \in @}]
                           ELSE db
                  /\ Respond(Reorder(order), all /\ commit_ok)
                  /\ UNCHANGED <<next_id, vacuumed, notAdmin>>

AdminNext == AdminImportZip \/ ManageToggle \/ ManageDelete \/ ManageReorder

\* the persistent dictionaries table, as rows; a schema without the table
\* holds no dictionary
PersistentDictionaries == IF "dictionaries" \in DOMAIN db THEN db["dictionaries"] ELSE {}
C18_StoresAgree ==
    /\ {r.id : r \in PersistentDictionaries} = {i \in AdminIds : IsSome(admin_dicts[i])}
    /\ \A r \in PersistentDictionaries :
          /\ Unwrap(admin_dicts[r.id]).enabled = r.enabled
          /\ Unwrap(admin_dicts[r.id]).priority = r.priority

\* C18: when an admin action has returned, the map and the persistent
\* dictionaries table agree on which dictionaries exist and on their enabled
\* and priority values, and an action that returned error changed neither.
C18_AdminActionAtomic ==
    IsSome(admin_action) =>
        /\ C18_StoresAgree
        /\ admin_status = "error" =>
              /\ admin_dicts = Unwrap(admin_before).dicts
              /\ db = Unwrap(admin_before).db

C19_RowsOf(rows, id) == {r \in rows : r.json.dictionary_id = id}

\* C19: after Delete{id} on an imported dictionary the action reports ok,
\* no term row of id remains, id is absent from the map, VACUUM has run, and
\* the rows and map entries of every other dictionary are as before.
C19_DeleteRemovesDictionary ==
    (/\ IsSome(admin_action)
     /\ Unwrap(admin_action).action = "Delete"
     /\ IsSome(Unwrap(admin_before).dicts[Unwrap(admin_action).id])
     /\ C19_RowsOf(Unwrap(admin_before).db.terms, Unwrap(admin_action).id) # {}) =>
        LET id == Unwrap(admin_action).id
            before == Unwrap(admin_before)
        IN  /\ admin_status = "ok"
            /\ C19_RowsOf(db.terms, id) = {}
            /\ admin_dicts[id] = Nothing
            /\ vacuumed
            /\ \A other \in AdminIds \ {id} :
                  /\ admin_dicts[other] = before.dicts[other]
                  /\ C19_RowsOf(db.terms, other) = C19_RowsOf(before.db.terms, other)

\* --------------------- yomitan-server: lookup_handler, the aggregation
\* The loop over raw_results.  The list is the one search returns, sorted by
\* span_chars.end, longest first; an entry is what the loop reads of it.
MaxRaw == 3
SpanEnds == {1, 2}
TermFull(h, r) == [kind |-> "Full", headword |-> h, reading |-> r]
TermHeadword(h) == [kind |-> "Headword", headword |-> h, reading |-> ""]
TermReading(r) == [kind |-> "Reading", headword |-> "", reading |-> r]
RawTerms == {TermFull("h", "r"), TermHeadword("h"), TermReading("h"), TermHeadword("")}
\* dict_meta: dictionary 1 is in the map, dictionary 2 is not
DictMeta == [i \in {1} |-> "A"]
RawSources == {1, 2}
RawContents == {"c1", "c2"}
RawEntry(term, span_end, source, content) ==
    [term |-> term, span_chars_end |-> span_end, source |-> source, content |-> content]

\* the match on entry.term
term_parts(term) ==
    CASE term.kind = "Full" -> <<term.headword, term.reading>>
      [] term.kind = "Headword" -> <<term.headword, "">>
      [] term.kind = "Reading" -> <<term.reading, "">>

\* dict_meta.get(&entry.source).cloned().unwrap_or("Unknown")
dict_name(source) == IF source \in DOMAIN DictMeta THEN DictMeta[source] ELSE "Unknown"

ApiDefinition(entry) == [dictionary_name |-> dict_name(entry.source), content |-> entry.content]

\* a find that looks at the headword alone
same_headword(agg, h, r) == agg.headword = h
\* the closure of find: agg.headword == headword && agg.reading == reading
same_group(agg, h, r) == agg.headword = h /\ agg.reading = r

is_duplicate_def(definitions, def_obj) ==
    \E n \in 1..Len(definitions) :
        /\ definitions[n].dictionary_name = def_obj.dictionary_name
        /\ definitions[n].content = def_obj.content

AggregateIdle ==
    /\ raw_results = <<>>
    /\ aggregators = <<>>
    /\ final_results = Nothing
    /\ agg_pc = "off"

AggregateInit ==
    /\ raw_results = <<>>
    /\ aggregators = <<>>
    /\ final_results = Nothing
    /\ agg_pc = "entries"

\* one turn of the loop over raw_results
AggregateEntry ==
    /\ agg_pc = "entries"
    /\ Len(raw_results) < MaxRaw
    /\ \E term \in RawTerms, span_end \in SpanEnds, source \in RawSources,
          content \in RawContents :
          LET entry == RawEntry(term, span_end, source, content)
              entry_headword == term_parts(term)[1]
              entry_reading == term_parts(term)[2]
              def_obj == ApiDefinition(entry)
              found == {n \in 1..Len(aggregators) : same_group(aggregators[n], entry_headword,
                                                                   entry_reading)}
              existing == CHOOSE n \in found : \A m \in found : n <= m
          IN  /\ raw_results # <<>> => span_end <= raw_results[Len(raw_results)].span_chars_end
              /\ raw_results' = Append(raw_results, entry)
              /\ aggregators' =
                    IF entry_headword = "" THEN aggregators
                    ELSE IF found # {}
                    THEN IF is_duplicate_def(aggregators[existing].definitions, def_obj)
                         THEN aggregators
                         ELSE [aggregators EXCEPT ![existing].definitions = Append(@, def_obj)]
                    ELSE Append(aggregators,
                                [headword |-> entry_headword, reading |-> entry_reading,
                                 definitions |-> <<def_obj>>,
                                 match_len |-> entry.span_chars_end])
    /\ UNCHANGED <<final_results, agg_pc, notAggregate>>

\* the end of the list: final_results, one ApiGroupedResult for each Aggregator
AggregateDone ==
    /\ agg_pc = "entries"
    /\ final_results' = Some(aggregators)
    /\ agg_pc' = "done"
    /\ UNCHANGED <<raw_results, aggregators, notAggregate>>

AggregateNext == AggregateEntry \/ AggregateDone

\* the entries the loop does not skip, and the first of each (headword, reading)
C21_Kept == {n \in 1..Len(raw_results) : term_parts(raw_results[n].term)[1] # ""}
C21_Firsts ==
    {n \in C21_Kept : \A m \in C21_Kept :
        term_parts(raw_results[m].term) = term_parts(raw_results[n].term) => n <= m}
C21_FirstOf(group) ==
    CHOOSE n \in C21_Firsts : term_parts(raw_results[n].term) = <<group.headword, group.reading>>

\* C21: the response has no two groups with the same (headword, reading);
\* the groups stand in the order of their first entries in the ranked list;
\* no group has two definitions with the same (dictionary name, content);
\* matchLen is the span length of the group's first entry, and does not
\* grow along the response.
C21_GroupedInFirstSeenOrder ==
    IsSome(final_results) =>
        LET groups == Unwrap(final_results)
        IN  /\ Len(groups) = Cardinality(C21_Firsts)
            /\ \A g \in 1..Len(groups) :
                  /\ \E n \in C21_Firsts :
                        term_parts(raw_results[n].term) = <<groups[g].headword, groups[g].reading>>
                  /\ groups[g].match_len = raw_results[C21_FirstOf(groups[g])].span_chars_end
                  /\ \A a, b \in 1..Len(groups[g].definitions) :
                        groups[g].definitions[a] = groups[g].definitions[b] => a = b
            /\ \A g, h \in 1..Len(groups) :
                  g < h => /\ <<groups[g].headword, groups[g].reading>>
                                # <<groups[h].headword, groups[h].reading>>
                           /\ C21_FirstOf(groups[g]) < C21_FirstOf(groups[h])
                           /\ groups[g].match_len >= groups[h].match_len

C21_Witness ==
    /\ IsSome(final_results)
    /\ Len(raw_results) = 3
    /\ Len(Unwrap(final_results)) = 2
    /\ Unwrap(final_results)[1].match_len > Unwrap(final_results)[2].match_len
    /\ raw_results[2] = raw_results[3]
    /\ Len(Unwrap(final_results)[2].definitions) = 1

\* ------------------------------------------- ocr-server: run_chapter_job
\* One job.  for_each_concurrent drives the page futures from the job's own
\* task: a future runs from one await to the next without another page's
\* code in between, and the only await of a page is fetch_and_process.
MaxPages == 7
MaxJobsBefore == 1
ConcurrencyAndroid == 2
ConcurrencyDesktop == 6

\* a limit that is the desktop's on every target
concurrency_limit_desktop(is_android) == ConcurrencyDesktop
\* let concurrency_limit = if cfg!(target_os = "android") { 2 } else { 6 }
concurrency_limit(is_android) == IF is_android THEN ConcurrencyAndroid ELSE ConcurrencyDesktop

JobProgress(current, total) == [current |-> current, total |-> total]

PageIds == 1..MaxPages
InFlight == {p \in PageIds : page_state[p] = "fetching"}
Finished == {p \in PageIds : page_state[p] \in {"cached", "processed", "failed"}}

JobIdle ==
    /\ android = FALSE
    /\ pages = 0
    /\ job_pc = "off"
    /\ page_state = [p \in PageIds |-> "pending"]
    /\ completed_counter = 0
    /\ active_chapter_jobs = Nothing
    /\ active_jobs = 0
    /\ jobs_before = 0

\* run_chapter_job is called
JobInit ==
    /\ android \in BOOLEAN
    /\ pages \in 0..MaxPages
    /\ job_pc = "new"
    /\ page_state = [p \in PageIds |-> "pending"]
    /\ completed_counter = 0
    /\ active_chapter_jobs = Nothing
    /\ active_jobs \in 0..MaxJobsBefore
    /\ jobs_before = active_jobs

\* the entry is inserted and active_jobs raised
JobStart ==
    /\ job_pc = "new"
    /\ active_chapter_jobs' = Some(JobProgress(0, pages))
    /\ active_jobs' = active_jobs + 1
    /\ job_pc' = "running"
    /\ UNCHANGED <<android, pages, page_state, completed_counter, jobs_before, notJob>>

\* the end of a page's future: completed_counter.fetch_add(1) + 1, written
\* to the entry when there is one
PageCompleted(p, outcome) ==
    /\ page_state' = [page_state EXCEPT ![p] = outcome]
    /\ completed_counter' = completed_counter + 1
    /\ active_chapter_jobs' =
          IF IsSome(active_chapter_jobs)
          THEN Some([Unwrap(active_chapter_jobs) EXCEPT !.current = completed_counter + 1])
          ELSE active_chapter_jobs

\* for_each_concurrent takes the next url while it drives fewer futures
\* than the limit, and the future runs to its first await: a cached page is
\* finished there, any other waits for fetch_and_process
PageStart ==
    /\ job_pc = "running"
    /\ Cardinality(InFlight) < concurrency_limit(android)
    /\ \E p \in 1..pages :
          /\ page_state[p] = "pending"
          /\ \A q \in 1..(p - 1) : page_state[q] # "pending"
          /\ \E exists \in BOOLEAN :
                IF exists
                THEN PageCompleted(p, "cached")
                ELSE /\ page_state' = [page_state EXCEPT ![p] = "fetching"]
                     /\ UNCHANGED <<completed_counter, active_chapter_jobs>>
    /\ UNCHANGED <<android, pages, job_pc, active_jobs, jobs_before, notJob>>

\* fetch_and_process returns: Ok is cached, Err is logged
PageFetched ==
    /\ job_pc = "running"
    /\ \E p \in InFlight, ok \in BOOLEAN :
          PageCompleted(p, IF ok THEN "processed" ELSE "failed")
    /\ UNCHANGED <<android, pages, job_pc, active_jobs, jobs_before, notJob>>

\* the stream is at its end and no future is left: active_jobs is lowered
\* and the entry removed
JobEnd ==
    /\ job_pc = "running"
    /\ \A p \in 1..pages : p \in Finished
    /\ active_jobs' = active_jobs - 1
    /\ active_chapter_jobs' = Nothing
    /\ job_pc' = "ended"
    /\ UNCHANGED <<android, pages, page_state, completed_counter, jobs_before, notJob>>

JobNext == JobStart \/ PageStart \/ PageFetched \/ JobEnd

C22_Limit == IF android THEN 2 ELSE 6
C22_Counted ==
    /\ Cardinality(InFlight) <= C22_Limit
    /\ job_pc = "running" =>
          /\ IsSome(active_chapter_jobs)
          /\ Unwrap(active_chapter_jobs).total = pages
          /\ Unwrap(active_chapter_jobs).current = Cardinality(Finished)
          /\ active_jobs = jobs_before + 1
    /\ job_pc = "ended" =>
          /\ active_chapter_jobs = Nothing
          /\ active_jobs = jobs_before
          /\ completed_counter = pages
C22_Step ==
    /\ (IsSome(active_chapter_jobs) /\ IsSome(active_chapter_jobs')) =>
          Unwrap(active_chapter_jobs').current >= Unwrap(active_chapter_jobs).current
    /\ job_pc' = "ended" =>
          IsSome(active_chapter_jobs) /\ Unwrap(active_chapter_jobs).current = pages

\* C22: at most 6 pages (2 on Android) are in flight; the progress is the
\* number of pages finished, whether cached, processed or failed; it never
\* decreases and is the total when the job ends; then the entry is removed
\* and active_jobs is what it was before the job.
C22_BoundedAndCounted == []C22_Counted /\ [][C22_Step]_vars

C22_Witness ==
    /\ job_pc = "ended"
    /\ pages = MaxPages
    /\ ~android
    /\ \E a, b, c \in PageIds :
          /\ page_state[a] = "cached"
          /\ page_state[b] = "processed"
          /\ page_state[c] = "failed"

\* ---------------------------------------------------------- specifications
ClipSpecInit == ClipInit /\ DictIdle /\ BuildIdle /\ WindowIdle /\ FuriganaIdle /\ SearchIdle /\ TsIdle /\ AdtsIdle /\ PesIdle /\ WavIdle /\ MasterIdle /\ DemuxIdle /\ AdminIdle /\ AggregateIdle /\ JobIdle
ClipSpec == ClipSpecInit /\ [][ClipNext]_vars

DictSpecInit == DictInit /\ ClipIdle /\ BuildIdle /\ WindowIdle /\ FuriganaIdle /\ SearchIdle /\ TsIdle /\ AdtsIdle /\ PesIdle /\ WavIdle /\ MasterIdle /\ DemuxIdle /\ AdminIdle /\ AggregateIdle /\ JobIdle
DictSpec == DictSpecInit /\ [][DictNext]_vars

BuildSpecInit == BuildInit /\ ClipIdle /\ DictIdle /\ WindowIdle /\ FuriganaIdle /\ SearchIdle /\ TsIdle /\ AdtsIdle /\ PesIdle /\ WavIdle /\ MasterIdle /\ DemuxIdle /\ AdminIdle /\ AggregateIdle /\ JobIdle
BuildSpec == BuildSpecInit /\ [][BuildNext]_vars

WindowSpecInit == WindowInit /\ ClipIdle /\ DictIdle /\ BuildIdle /\ FuriganaIdle /\ SearchIdle /\ TsIdle /\ AdtsIdle /\ PesIdle /\ WavIdle /\ MasterIdle /\ DemuxIdle /\ AdminIdle /\ AggregateIdle /\ JobIdle
WindowSpec == WindowSpecInit /\ [][WindowNext]_vars

FuriganaSpecInit == FuriganaInit /\ ClipIdle /\ DictIdle /\ BuildIdle /\ WindowIdle /\ SearchIdle /\ TsIdle /\ AdtsIdle /\ PesIdle /\ WavIdle /\ MasterIdle /\ DemuxIdle /\ AdminIdle /\ AggregateIdle /\ JobIdle
FuriganaSpec == FuriganaSpecInit /\ [][FuriganaNext]_vars

SearchSpecInit == SearchInit /\ ClipIdle /\ DictIdle /\ BuildIdle /\ WindowIdle /\ FuriganaIdle /\ TsIdle /\ AdtsIdle /\ PesIdle /\ WavIdle /\ MasterIdle /\ DemuxIdle /\ AdminIdle /\ AggregateIdle /\ JobIdle
SearchSpec == SearchSpecInit /\ [][SearchNext]_vars

TsSpecInit == TsInit /\ ClipIdle /\ DictIdle /\ BuildIdle /\ WindowIdle /\ FuriganaIdle /\ SearchIdle /\ AdtsIdle /\ PesIdle /\ WavIdle /\ MasterIdle /\ DemuxIdle /\ AdminIdle /\ AggregateIdle /\ JobIdle
TsSpec == TsSpecInit /\ [][TsNext]_vars

AdtsSpecInit == AdtsInit /\ ClipIdle /\ DictIdle /\ BuildIdle /\ WindowIdle /\ FuriganaIdle /\ SearchIdle /\ TsIdle /\ PesIdle /\ WavIdle /\ MasterIdle /\ DemuxIdle /\ AdminIdle /\ AggregateIdle /\ JobIdle
AdtsSpec == AdtsSpecInit /\ [][AdtsNext]_vars
\* the loop runs on: extract_adts_frames is a sequential function
AdtsLiveSpec == AdtsSpec /\ WF_vars(AdtsNext)

PesSpecInit == PesInit /\ ClipIdle /\ DictIdle /\ BuildIdle /\ WindowIdle /\ FuriganaIdle /\ SearchIdle /\ TsIdle /\ AdtsIdle /\ WavIdle /\ MasterIdle /\ DemuxIdle /\ AdminIdle /\ AggregateIdle /\ JobIdle
PesSpec == PesSpecInit /\ [][PesNext]_vars

WavSpecInit == WavInit /\ ClipIdle /\ DictIdle /\ BuildIdle /\ WindowIdle /\ FuriganaIdle /\ SearchIdle /\ TsIdle /\ AdtsIdle /\ PesIdle /\ MasterIdle /\ DemuxIdle /\ AdminIdle /\ AggregateIdle /\ JobIdle
WavSpec == WavSpecInit /\ [][WavNext]_vars

MasterSpecInit == MasterInit /\ ClipIdle /\ DictIdle /\ BuildIdle /\ WindowIdle /\ FuriganaIdle /\ SearchIdle /\ TsIdle /\ AdtsIdle /\ PesIdle /\ WavIdle /\ DemuxIdle /\ AdminIdle /\ AggregateIdle /\ JobIdle
MasterSpec == MasterSpecInit /\ [][MasterNext]_vars

DemuxSpecInit == DemuxInit /\ ClipIdle /\ DictIdle /\ BuildIdle /\ WindowIdle /\ FuriganaIdle /\ SearchIdle /\ TsIdle /\ AdtsIdle /\ PesIdle /\ WavIdle /\ MasterIdle /\ AdminIdle /\ AggregateIdle /\ JobIdle
DemuxSpec == DemuxSpecInit /\ [][DemuxNext]_vars

AdminSpecInit == AdminInit /\ ClipIdle /\ DictIdle /\ BuildIdle /\ WindowIdle /\ FuriganaIdle /\ SearchIdle /\ TsIdle /\ AdtsIdle /\ PesIdle /\ WavIdle /\ MasterIdle /\ DemuxIdle /\ AggregateIdle /\ JobIdle
AdminSpec == AdminSpecInit /\ [][AdminNext]_vars

AggregateSpecInit == AggregateInit /\ ClipIdle /\ DictIdle /\ BuildIdle /\ WindowIdle /\ FuriganaIdle /\ SearchIdle /\ TsIdle /\ AdtsIdle /\ PesIdle /\ WavIdle /\ MasterIdle /\ DemuxIdle /\ AdminIdle /\ JobIdle
AggregateSpec == AggregateSpecInit /\ [][AggregateNext]_vars

JobSpecInit == JobInit /\ ClipIdle /\ DictIdle /\ BuildIdle /\ WindowIdle /\ FuriganaIdle /\ SearchIdle /\ TsIdle /\ AdtsIdle /\ PesIdle /\ WavIdle /\ MasterIdle /\ DemuxIdle /\ AdminIdle /\ AggregateIdle
JobSpec == JobSpecInit /\ [][JobNext]_vars

====
